---- MODULE Spec2Model ----
(***************************************************************************)
(* Verification model of the Maestro kernel core: the per-filesystem node  *)
(* cache, the tick-driven scheduler, and the process / signal / wait       *)
(* machinery.  Each subsystem has its own variables and its own            *)
(* specification (SpecCache, SpecSched, SpecProc); the subsystems share no *)
(* variable, so a property of one holds of the composition Spec as well.   *)
(***************************************************************************)
EXTENDS Integers, Sequences, FiniteSets, TLC

VARIABLES
    \* ---- node cache (kernel/src/file/fs/mod.rs) ----
    node_cache,     \* Filesystem::node_cache : inode -> node object (0 = no entry)
    node_inode,     \* Node::inode of every node object ever built (0 = not built yet)
    node_refs,      \* per thread, the Arc<Node> clones it holds outside the cache
    next_node,      \* the next node object Arc::new will build
    cache_last      \* the last cache operation and what it returned

cacheVars == <<node_cache, node_inode, node_refs, next_node, cache_last>>

VARIABLES
    \* ---- scheduler (src/process/scheduler.rs) ----
    processes,      \* Scheduler::processes : the list of all processes
    cursor,         \* Scheduler::cursor : index (from 0) into `processes`
    curr_proc,      \* Scheduler::curr_proc : index of the running process, -1 = None
    priority_sum,   \* Scheduler::priority_sum
    priority_max,   \* Scheduler::priority_max
    sched_panic,    \* the kernel has panicked inside the scheduler
    sched_last      \* the last scheduler operation: its inputs and its result

schedVars == <<processes, cursor, curr_proc, priority_sum, priority_max,
               sched_panic, sched_last>>

VARIABLES
    \* ---- processes, signals, wait (src/process/signal, src/syscall) ----
    proc_table,     \* the process table: pid -> Process, for the pids get_by_pid finds
    sigs,           \* the signals used in this run
    subject,        \* the process whose signal handling is exercised (SpecSignal)
    sig_entry,      \* per process, the registers and mask at the last handler delivery
    proc_last,      \* the last process operation: its inputs, the state it found, its result
    calls           \* how many kill, sigaction and sigprocmask calls were made

procVars == <<proc_table, sigs, subject, sig_entry, proc_last, calls>>

\* User memory and the typed user-pointer wrappers
VARIABLES
    umem,           \* the content of the cells of user memory
    umap,           \* MemSpace: how each cell is mapped ("none", "ro", "rw")
    uptr,           \* the wrapper in use: its kind, the raw address, the iterator index
    ptr_last        \* the last wrapper operation: its result, the cells probed and accessed

ptrVars == <<umem, umap, uptr, ptr_last>>

\* Path resolution
VARIABLES
    rcfg,           \* the filesystem resolved in: chain of links, search bits
    res_last        \* the last resolution: its inputs, result, links followed, directories looked up

resVars == <<rcfg, res_last>>

\* Files of one directory
VARIABLES
    vcfg,           \* what the caller may do: write / search the directory, write the files
    entries,        \* the directory: name -> inode (0 = no entry)
    hard_links,     \* inode -> number of links
    open_count,     \* inode -> number of open handles (OpenFile)
    deferred,       \* inode -> the name whose removal is deferred ("" = none)
    destroyed,      \* inode -> how many times the filesystem destroyed the node
    next_ino,       \* the next inode add_file allocates
    vfs_last        \* the last operation: its inputs, its result, the directory before it

vfsVars == <<vcfg, entries, hard_links, open_count, deferred, destroyed, next_ino, vfs_last>>

\* Mappings of one memory space
VARIABLES
    mappings,       \* user page -> the mapping that covers it (0 = none)
    next_map,       \* the next mapping's identity
    mmap_last       \* the last mmap call: its arguments and what it returned

mmapVars == <<mappings, next_map, mmap_last>>

\* Mapping list of one memory space
VARIABLES
    mem_list,       \* the mappings, as MemSpace keeps them: a sequence of [begin, pages, id]
    mem_next,       \* the next mapping's identity
    mem_last        \* the last operation on the memory space

memVars == <<mem_list, mem_next, mem_last>>

\* Locks taken by system calls
VARIABLES
    lk_owner,       \* lock -> the process that holds it (0 = free)
    lk_call,        \* process -> the system call it is in ("idle" = user mode)
    lk_pc,          \* process -> its position in the system call
    lk_held         \* process -> the locks it holds, in the order it took them

lockVars == <<lk_owner, lk_call, lk_pc, lk_held>>

\* Page directory and page tables
VARIABLES
    vm_mem,         \* physical memory: frame -> entry index -> paging entry
    vm_next,        \* the next frame the buddy allocator hands out
    vm_build,       \* whether debug assertions are compiled in, and whether one has failed
    vm_last         \* the last call of map: its arguments and its result

vmemVars == <<vm_mem, vm_next, vm_build, vm_last>>

\* Initial stack of a program
VARIABLES
    stk             \* the last image built: its arguments, the stack memory, the stack pointer

stackVars == <<stk>>

\* File creation mask
VARIABLES
    um_umask,       \* the process's umask field
    um_stored,      \* the value the last umask call stored (the inherited one before any call)
    um_files,       \* the parent directory: name -> mode of the file, AbsentMode when absent
    um_last         \* the last call: its arguments and its result

umaskVars == <<um_umask, um_stored, um_files, um_last>>

\* Interrupt callbacks
VARIABLES
    ev_callbacks,   \* CALLBACKS[id]: the vector of callback wrappers of one interrupt
    ev_hooks,       \* the CallbackHooks that are alive
    ev_next,        \* the next address Box::new hands out
    ev_dropped,     \* the addresses of the callbacks whose hook was dropped
    ev_last         \* the last operation: its arguments, the vector before it, the calls it made

eventVars == <<ev_callbacks, ev_hooks, ev_next, ev_dropped, ev_last>>

\* Thread-local storage entries
VARIABLES
    tls_entries,    \* the process's TLS entries: index -> whether the entry is present
    tls_last        \* the last set_thread_area call: its arguments and its result

tlsVars == <<tls_entries, tls_last>>

\* Paths
VARIABLES
    path_cur,       \* the Path at hand: whether it is absolute, and its parts
    path_last       \* the last operation and the Path before it

pathVars == <<path_cur, path_last>>

\* Intrusive list
VARIABLES
    il_prev,        \* ListNode::prev of every node: {} for None, {n} for Some(n)
    il_next,        \* ListNode::next of every node
    il_order,       \* the elements handed to the list and not taken out, latest first
    il_last         \* the last operation: its argument, the order before it, what it returned

ilistVars == <<il_prev, il_next, il_order, il_last>>

\* kill(-1)
VARIABLES
    ka_procs,       \* the scheduler's processes: pid -> state, whether the caller may signal it, whether the signal is pending
    ka_last         \* the last kill call: its arguments, the processes before it, its result

killallVars == <<ka_procs, ka_last>>

\* Kernel log buffer
VARIABLES
    lg,             \* the Logger: buff, read_head, write_head, and whether push panicked
    lg_last         \* the last push: the string, the heads before it

loggerVars == <<lg, lg_last>>

\* exec and its errors
VARIABLES
    xp,             \* the calling process: argv, envp, mem_space, file_descriptors, signal_handlers, tls_entries, regs
    xp_last         \* the last exec: the image, where it failed, the process before it

execerrVars == <<xp, xp_last>>

vars == <<cacheVars, schedVars, procVars, ptrVars, resVars, vfsVars, mmapVars, memVars, lockVars, vmemVars, stackVars, umaskVars, eventVars, tlsVars, pathVars, ilistVars, killallVars, loggerVars, execerrVars>>

\* What an operation of one subsystem leaves alone: the other subsystems.
ExecerrFrame == UNCHANGED <<cacheVars, schedVars, procVars, ptrVars, resVars, vfsVars, mmapVars, memVars, lockVars, vmemVars, stackVars, umaskVars, eventVars, tlsVars, pathVars, ilistVars, killallVars, loggerVars>>
LoggerFrame == UNCHANGED <<cacheVars, schedVars, procVars, ptrVars, resVars, vfsVars, mmapVars, memVars, lockVars, vmemVars, stackVars, umaskVars, eventVars, tlsVars, pathVars, ilistVars, killallVars, execerrVars>>
KillallFrame == UNCHANGED <<cacheVars, schedVars, procVars, ptrVars, resVars, vfsVars, mmapVars, memVars, lockVars, vmemVars, stackVars, umaskVars, eventVars, tlsVars, pathVars, ilistVars, loggerVars, execerrVars>>
IlistFrame == UNCHANGED <<cacheVars, schedVars, procVars, ptrVars, resVars, vfsVars, mmapVars, memVars, lockVars, vmemVars, stackVars, umaskVars, eventVars, tlsVars, pathVars, killallVars, loggerVars, execerrVars>>
PathFrame == UNCHANGED <<cacheVars, schedVars, procVars, ptrVars, resVars, vfsVars, mmapVars, memVars, lockVars, vmemVars, stackVars, umaskVars, eventVars, tlsVars, ilistVars, killallVars, loggerVars, execerrVars>>
TlsFrame == UNCHANGED <<cacheVars, schedVars, procVars, ptrVars, resVars, vfsVars, mmapVars, memVars, lockVars, vmemVars, stackVars, umaskVars, eventVars, pathVars, ilistVars, killallVars, loggerVars, execerrVars>>
EventFrame == UNCHANGED <<cacheVars, schedVars, procVars, ptrVars, resVars, vfsVars, mmapVars, memVars, lockVars, vmemVars, stackVars, umaskVars, tlsVars, pathVars, ilistVars, killallVars, loggerVars, execerrVars>>
UmaskFrame == UNCHANGED <<cacheVars, schedVars, procVars, ptrVars, resVars, vfsVars, mmapVars, memVars, lockVars, vmemVars, stackVars, eventVars, tlsVars, pathVars, ilistVars, killallVars, loggerVars, execerrVars>>
StackFrame == UNCHANGED <<cacheVars, schedVars, procVars, ptrVars, resVars, vfsVars, mmapVars, memVars, lockVars, vmemVars, umaskVars, eventVars, tlsVars, pathVars, ilistVars, killallVars, loggerVars, execerrVars>>
CacheFrame == UNCHANGED <<schedVars, procVars, ptrVars, resVars, vfsVars, mmapVars, memVars, lockVars, vmemVars, stackVars, umaskVars, eventVars, tlsVars, pathVars, ilistVars, killallVars, loggerVars, execerrVars>>
SchedFrame == UNCHANGED <<cacheVars, procVars, ptrVars, resVars, vfsVars, mmapVars, memVars, lockVars, vmemVars, stackVars, umaskVars, eventVars, tlsVars, pathVars, ilistVars, killallVars, loggerVars, execerrVars>>
ProcFrame == UNCHANGED <<cacheVars, schedVars, ptrVars, resVars, vfsVars, mmapVars, memVars, lockVars, vmemVars, stackVars, umaskVars, eventVars, tlsVars, pathVars, ilistVars, killallVars, loggerVars, execerrVars>>
PtrFrame == UNCHANGED <<cacheVars, schedVars, procVars, resVars, vfsVars, mmapVars, memVars, lockVars, vmemVars, stackVars, umaskVars, eventVars, tlsVars, pathVars, ilistVars, killallVars, loggerVars, execerrVars>>
ResFrame == UNCHANGED <<cacheVars, schedVars, procVars, ptrVars, vfsVars, mmapVars, memVars, lockVars, vmemVars, stackVars, umaskVars, eventVars, tlsVars, pathVars, ilistVars, killallVars, loggerVars, execerrVars>>
VmemFrame == UNCHANGED <<cacheVars, schedVars, procVars, ptrVars, resVars, vfsVars, mmapVars, memVars, lockVars, stackVars, umaskVars, eventVars, tlsVars, pathVars, ilistVars, killallVars, loggerVars, execerrVars>>
LockFrame == UNCHANGED <<cacheVars, schedVars, procVars, ptrVars, resVars, vfsVars, mmapVars, memVars, vmemVars, stackVars, umaskVars, eventVars, tlsVars, pathVars, ilistVars, killallVars, loggerVars, execerrVars>>
MemFrame == UNCHANGED <<cacheVars, schedVars, procVars, ptrVars, resVars, vfsVars, mmapVars, lockVars, vmemVars, stackVars, umaskVars, eventVars, tlsVars, pathVars, ilistVars, killallVars, loggerVars, execerrVars>>
MmapFrame == UNCHANGED <<cacheVars, schedVars, procVars, ptrVars, resVars, vfsVars, memVars, lockVars, vmemVars, stackVars, umaskVars, eventVars, tlsVars, pathVars, ilistVars, killallVars, loggerVars, execerrVars>>
VfsFrame == UNCHANGED <<cacheVars, schedVars, procVars, ptrVars, resVars, mmapVars, memVars, lockVars, vmemVars, stackVars, umaskVars, eventVars, tlsVars, pathVars, ilistVars, killallVars, loggerVars, execerrVars>>

----------------------------------------------------------------------------
(***************************************************************************)
(* Node cache                                                              *)
(***************************************************************************)

\* Bounds of the node-cache model.
MaxINodes == 2
MaxThreads == 2
MaxNodes == 3

INodes == 1..MaxINodes
Threads == 1..MaxThreads
NodeIds == 1..MaxNodes

\* Arc::strong_count(node): the cache's own reference plus every clone held
\* by a thread.
strong_count(n) ==
    (IF \E i \in INodes : node_cache[i] = n THEN 1 ELSE 0)
    + Cardinality({t \in Threads : n \in node_refs[t]})

\* A node object is live while at least one Arc to it exists.
LiveNodes == {n \in NodeIds : node_inode[n] # 0 /\ strong_count(n) > 0}

InitCacheVars ==
    /\ node_cache = [i \in INodes |-> 0]
    /\ node_inode = [n \in NodeIds |-> 0]
    /\ node_refs = [t \in Threads |-> {}]
    /\ next_node = 1
    /\ cache_last = [op |-> "none", thread |-> 0, inode |-> 0, node |-> 0]

\* Filesystem::node_lookup: clone of the cached Arc, if any.
node_lookup(t, inode) ==
    /\ IF node_cache[inode] # 0
       THEN node_refs' = [node_refs EXCEPT ![t] = @ \cup {node_cache[inode]}]
       ELSE UNCHANGED node_refs
    /\ cache_last' = [op |-> "node_lookup", thread |-> t, inode |-> inode,
                      node |-> node_cache[inode]]
    /\ UNCHANGED <<node_cache, node_inode, next_node>>
    /\ CacheFrame

\* Filesystem::node_get_or_insert, the whole body under the cache lock:
\* a hit clones the entry; a miss runs init (which may fail), builds the node
\* and publishes it.
node_get_or_insert(t, inode, init_ok) ==
    /\ CacheFrame
    /\ IF node_cache[inode] # 0
       THEN /\ node_refs' = [node_refs EXCEPT ![t] = @ \cup {node_cache[inode]}]
            /\ cache_last' = [op |-> "node_get_or_insert", thread |-> t,
                              inode |-> inode, node |-> node_cache[inode]]
            /\ UNCHANGED <<node_cache, node_inode, next_node>>
       ELSE IF ~init_ok
       THEN /\ cache_last' = [op |-> "node_get_or_insert", thread |-> t,
                              inode |-> inode, node |-> 0]
            /\ UNCHANGED <<node_cache, node_inode, node_refs, next_node>>
       ELSE /\ next_node <= MaxNodes
            /\ node_inode' = [node_inode EXCEPT ![next_node] = inode]
            /\ node_cache' = [node_cache EXCEPT ![inode] = next_node]
            /\ node_refs' = [node_refs EXCEPT ![t] = @ \cup {next_node}]
            /\ next_node' = next_node + 1
            /\ cache_last' = [op |-> "node_get_or_insert", thread |-> t,
                              inode |-> inode, node |-> next_node]

\* Filesystem::node_insert with a node the caller has just built for `inode`
\* (the Arc is moved into the cache; `keep` tells whether the caller kept a
\* clone).  HashMap::insert replaces the entry of an inode already cached.
node_insert_new(t, inode, keep) ==
    /\ next_node <= MaxNodes
    /\ node_inode' = [node_inode EXCEPT ![next_node] = inode]
    /\ node_cache' = [node_cache EXCEPT ![inode] = next_node]
    /\ node_refs' = IF keep
                    THEN [node_refs EXCEPT ![t] = @ \cup {next_node}]
                    ELSE node_refs
    /\ next_node' = next_node + 1
    /\ cache_last' = [op |-> "node_insert", thread |-> t, inode |-> inode,
                      node |-> next_node]
    /\ CacheFrame

\* Filesystem::node_insert with a clone of a node the caller already holds.
node_insert_held(t, n) ==
    /\ n \in node_refs[t]
    /\ node_cache' = [node_cache EXCEPT ![node_inode[n]] = n]
    /\ cache_last' = [op |-> "node_insert", thread |-> t,
                      inode |-> node_inode[n], node |-> n]
    /\ UNCHANGED <<node_inode, node_refs, next_node>>
    /\ CacheFrame

\* Node::try_remove: the filesystem destroys the node, or fails to.
try_remove(destroy_ok) == IF destroy_ok THEN "Ok" ELSE "EIO"

\* Filesystem::node_remove: no entry, or an entry referenced elsewhere, is
\* left alone; otherwise the entry is removed and the node consumed
\* (Arc::into_inner, then Node::try_remove).
node_remove(t, inode, destroy_ok) ==
    /\ IF node_cache[inode] # 0 /\ strong_count(node_cache[inode]) = 1
       THEN node_cache' = [node_cache EXCEPT ![inode] = 0]
       ELSE UNCHANGED node_cache
    /\ cache_last' = [op |-> "node_remove", thread |-> t, inode |-> inode,
                      node |-> node_cache[inode],
                      ret |-> IF node_cache[inode] # 0
                                 /\ strong_count(node_cache[inode]) = 1
                              THEN try_remove(destroy_ok)
                              ELSE "Ok"]
    /\ UNCHANGED <<node_inode, node_refs, next_node>>
    /\ CacheFrame

\* A thread drops one of its Arc<Node> clones.
node_drop(t, n) ==
    /\ n \in node_refs[t]
    /\ node_refs' = [node_refs EXCEPT ![t] = @ \ {n}]
    /\ cache_last' = [op |-> "drop", thread |-> t, inode |-> node_inode[n],
                      node |-> n]
    /\ UNCHANGED <<node_cache, node_inode, next_node>>
    /\ CacheFrame

NextCache ==
    \/ \E t \in Threads, i \in INodes : node_lookup(t, i)
    \/ \E t \in Threads, i \in INodes, ok \in BOOLEAN :
            node_get_or_insert(t, i, ok)
    \/ \E t \in Threads, i \in INodes, keep \in BOOLEAN :
            node_insert_new(t, i, keep)
    \/ \E t \in Threads, n \in NodeIds : node_insert_held(t, n)
    \/ \E t \in Threads, i \in INodes, ok \in BOOLEAN : node_remove(t, i, ok)
    \/ \E t \in Threads, n \in NodeIds : node_drop(t, n)

\* The references to node n held outside the cache.
external_count(n) == Cardinality({t \in Threads : n \in node_refs[t]})

\* C20: node_remove takes a node out of the cache only when nothing outside
\* the cache refers to it and the filesystem could destroy it; when the inode
\* is not cached or the node is referenced elsewhere, the cache keeps what it
\* had and the call succeeds.
C20_RemovedOnlyWhenDestroyable ==
    cache_last.op = "node_remove" =>
        /\ (cache_last.node # 0 /\ node_cache[cache_last.inode] = 0)
              => /\ external_count(cache_last.node) = 0
                 /\ cache_last.ret = "Ok"
        /\ (cache_last.node = 0 \/ external_count(cache_last.node) > 0)
              => /\ node_cache[cache_last.inode] = cache_last.node
                 /\ cache_last.ret = "Ok"

\* C2: at most one live Node object exists per inode: any two live node
\* objects of the same inode are the same object.
C2_OneLiveNodePerInode ==
    \A a \in LiveNodes, b \in LiveNodes :
        node_inode[a] = node_inode[b] => a = b


----------------------------------------------------------------------------
(***************************************************************************)
(* Scheduler                                                               *)
(***************************************************************************)

\* Bounds of the scheduler model.
MaxProcs == 2
Priorities == {0, 10, 20}

\* The number of quanta for the process with the average priority.
AVERAGE_PRIORITY_QUANTA == 10
\* The number of quanta for the process with the maximum priority.
MAX_PRIORITY_QUANTA == 30

\* process::State
State == {"Running", "Sleeping", "Stopped", "Zombie"}

\* Rust's integer division truncates toward zero.
TruncDiv(a, b) ==
    LET abs(x) == IF x < 0 THEN -x ELSE x
        q == abs(a) \div abs(b)
    IN  IF (a < 0) = (b < 0) THEN q ELSE -q

\* util::math::integer_linear_interpolation, as written: the divisor is
\* b_x - a_x; a zero divisor panics (see InterpolationPanics).
integer_linear_interpolation(x, a_x, a_y, b_x, b_y) ==
    a_y + TruncDiv((x - a_x) * (-a_y + b_y), b_x - a_x)

InterpolationPanics(a_x, b_x) == b_x - a_x = 0

\* Scheduler::get_average_priority over a process list and a priority sum.
get_average_priority(procs, sum) == sum \div Len(procs)

max(a, b) == IF a >= b THEN a ELSE b

\* Scheduler::get_quantum_count: the arguments are passed in the order of
\* the call in the source.
get_quantum_count(procs, sum, pmax, priority) ==
    LET n == integer_linear_interpolation(priority,
                get_average_priority(procs, sum),
                pmax,
                AVERAGE_PRIORITY_QUANTA,
                MAX_PRIORITY_QUANTA)
    IN  max(1, n)

\* The division of get_quantum_count is by zero.
get_quantum_count_panics(procs, sum) ==
    InterpolationPanics(get_average_priority(procs, sum), AVERAGE_PRIORITY_QUANTA)

\* can_run with the quantum test off by one (<= for <).
can_run_off_by_one(procs, sum, pmax, i) ==
    LET process == procs[i + 1]
    IN  IF process.state = "Running"
        THEN process.quantum_count <= get_quantum_count(procs, sum, pmax, process.priority)
        ELSE FALSE

\* Scheduler::can_run for index i (from 0): the quantum is computed only for
\* a Running process.
can_run(procs, sum, pmax, i) ==
    LET process == procs[i + 1]
    IN  IF process.state = "Running"
        THEN process.quantum_count < get_quantum_count(procs, sum, pmax, process.priority)
        ELSE FALSE

can_run_panics(procs, sum, i) ==
    procs[i + 1].state = "Running" /\ get_quantum_count_panics(procs, sum)

\* The search loop of Scheduler::get_next_process: from index i, after j
\* steps.  The result is the index reached, or -1 when a can_run panicked.
RECURSIVE next_loop(_, _, _, _, _)
next_loop(procs, sum, pmax, i, j) ==
    IF j < Len(procs)
    THEN IF can_run_panics(procs, sum, i) THEN -1
         ELSE IF ~can_run(procs, sum, pmax, i)
         THEN next_loop(procs, sum, pmax, (i + 1) % Len(procs), j + 1)
         ELSE i
    ELSE i

\* The process list after the quantum reset of Scheduler::get_next_process.
reset_quantum(procs, cur, i) ==
    IF cur # i \/ Len(procs) = 1
    THEN [procs EXCEPT ![cur + 1].quantum_count = 0]
    ELSE procs

\* Scheduler::get_next_process: [procs, cursor, sel, panic]; sel = -1 is None.
get_next_process(procs, sum, pmax, cur) ==
    IF Len(procs) = 0
    THEN [procs |-> procs, cursor |-> cur, sel |-> -1, panic |-> FALSE]
    ELSE LET i == next_loop(procs, sum, pmax, cur, 0) IN
         IF i = -1
         THEN [procs |-> procs, cursor |-> cur, sel |-> -1, panic |-> TRUE]
         ELSE LET ps == reset_quantum(procs, cur, i) IN
              IF can_run_panics(ps, sum, i)
              THEN [procs |-> ps, cursor |-> i, sel |-> -1, panic |-> TRUE]
              ELSE [procs |-> ps, cursor |-> i,
                    sel |-> IF can_run(ps, sum, pmax, i) THEN i ELSE -1,
                    panic |-> FALSE]

NoSchedOp == [op |-> "none", cursor |-> 0, qual |-> {}, sel |-> -1]

InitSchedVars ==
    /\ processes = <<>>
    /\ cursor = 0
    /\ curr_proc = -1
    /\ priority_sum = 0
    /\ priority_max = 0
    /\ sched_panic = FALSE
    /\ sched_last = NoSchedOp

\* Scheduler::update_priority
update_priority(old, new) ==
    /\ priority_sum' = priority_sum - old + new
    /\ priority_max' = IF old >= priority_max THEN new ELSE priority_max

\* Scheduler::add_process: the process is pushed, then update_priority(0, priority).
add_process(priority) ==
    /\ ~sched_panic
    /\ Len(processes) < MaxProcs
    /\ processes' = Append(processes,
            [priority |-> priority, state |-> "Running", quantum_count |-> 0])
    /\ update_priority(0, priority)
    /\ sched_last' = NoSchedOp
    /\ UNCHANGED <<cursor, curr_proc, sched_panic>>
    /\ SchedFrame

\* A process changes its priority and reports it with update_priority(old, new).
set_priority(i, new) ==
    /\ ~sched_panic
    /\ i \in 0..(Len(processes) - 1)
    /\ new # processes[i + 1].priority
    /\ update_priority(processes[i + 1].priority, new)
    /\ processes' = [processes EXCEPT ![i + 1].priority = new]
    /\ sched_last' = NoSchedOp
    /\ UNCHANGED <<cursor, curr_proc, sched_panic>>
    /\ SchedFrame

\* A process changes state (it blocks, is woken, is stopped, exits).
set_state(i, s) ==
    /\ ~sched_panic
    /\ i \in 0..(Len(processes) - 1)
    /\ s # processes[i + 1].state
    /\ processes[i + 1].state # "Zombie"
    /\ processes' = [processes EXCEPT ![i + 1].state = s]
    /\ sched_last' = NoSchedOp
    /\ UNCHANGED <<cursor, curr_proc, priority_sum, priority_max, sched_panic>>
    /\ SchedFrame

\* The processes that can run, as indices from 0 (only where can_run is defined).
Qualifying(procs, sum, pmax) ==
    {i \in 0..(Len(procs) - 1) :
        ~can_run_panics(procs, sum, i) /\ can_run(procs, sum, pmax, i)}

\* Scheduler::tick: the next process is chosen; when there is one it becomes
\* the current process and its quantum count is incremented on the way to
\* the context switch; when there is none the CPU halts until the next tick.
\* (total_ticks and the saved registers do not take part in the choice.)
tick ==
    /\ ~sched_panic
    /\ LET r == get_next_process(processes, priority_sum, priority_max, cursor) IN
       /\ sched_panic' = r.panic
       /\ cursor' = r.cursor
       /\ curr_proc' = IF r.sel # -1 THEN r.sel ELSE curr_proc
       /\ processes' = IF r.sel # -1
                       THEN [r.procs EXCEPT ![r.sel + 1].quantum_count = @ + 1]
                       ELSE r.procs
       /\ sched_last' = [op |-> IF r.panic THEN "panic" ELSE "tick",
                         cursor |-> cursor,
                         qual |-> IF Len(processes) = 0
                                     \/ get_quantum_count_panics(processes, priority_sum)
                                  THEN {}
                                  ELSE Qualifying(processes, priority_sum, priority_max),
                         sel |-> r.sel]
    /\ UNCHANGED <<priority_sum, priority_max>>
    /\ SchedFrame

\* C35: a tick that finds at least one process in Running state selects a
\* process: it never concludes that no process remains.
C35_TickSelectsWhenSomeRunning ==
    ( /\ sched_last.op = "tick"
      /\ \E i \in 1..Len(processes) : processes[i].state = "Running" )
    => sched_last.sel # -1

\* Distance from index c to index i going forward cyclically among n.
CycDist(c, i, n) == (i - c + n) % n

\* The process a tick selected is the first, in cyclic order from the cursor
\* (the cursor itself first), of the processes that qualified at the tick.
FirstQualifying ==
    /\ sched_last.sel \in sched_last.qual
    /\ \A k \in sched_last.qual :
          CycDist(sched_last.cursor, sched_last.sel, Len(processes))
              <= CycDist(sched_last.cursor, k, Len(processes))

\* The process a tick selected is Running and, counting the tick it was
\* just given, is within its quantum.
SelectedCanRun ==
    LET process == processes[sched_last.sel + 1] IN
    /\ process.state = "Running"
    /\ process.quantum_count
          <= get_quantum_count(processes, priority_sum, priority_max, process.priority)

TickSelected == sched_last.op = "tick" /\ sched_last.sel # -1

ActualMaxPriority ==
    CHOOSE m \in {processes[i].priority : i \in 1..Len(processes)} :
        \A i \in 1..Len(processes) : processes[i].priority <= m

\* The quantum budget the description gives priority p: 10 at the average
\* priority, 30 at the maximum, linear in between, never below 1.
DocumentedQuantum(p) ==
    LET avg == get_average_priority(processes, priority_sum) IN
    max(1, AVERAGE_PRIORITY_QUANTA
           + TruncDiv((p - avg) * (MAX_PRIORITY_QUANTA - AVERAGE_PRIORITY_QUANTA),
                      ActualMaxPriority - avg))

\* C4: in every scheduler state with at least one process (and an average
\* priority below the maximum) the quantum budget of every process is defined,
\* is at least 1, is 10 at the average priority, 30 at the maximum priority
\* and the linear interpolation in between.
C4_QuantumBudget ==
    (Len(processes) >= 1
        /\ get_average_priority(processes, priority_sum) < ActualMaxPriority)
    => /\ ~get_quantum_count_panics(processes, priority_sum)
       /\ \A i \in 1..Len(processes) :
            LET p == processes[i].priority
                q == get_quantum_count(processes, priority_sum, priority_max, p)
            IN  /\ q >= 1
                /\ p >= get_average_priority(processes, priority_sum)
                      => q = DocumentedQuantum(p)

NextSched ==
    \/ \E p \in Priorities : add_process(p)
    \/ \E i \in 0..(MaxProcs - 1), p \in Priorities : set_priority(i, p)
    \/ \E i \in 0..(MaxProcs - 1), s \in State : set_state(i, s)
    \/ tick

----------------------------------------------------------------------------
(***************************************************************************)
(* Processes and signals                                                   *)
(***************************************************************************)

\* Bound of the process model: the pids are 1..MaxPids.
MaxPids == 3
Pids == 1..MaxPids

\* process::pid::INIT_PID
INIT_PID == 1

\* Signal::get_id
SIGQUIT == 3
SIGKILL == 9
SIGUSR1 == 10
SIGSEGV == 11
SIGCHLD == 17
SIGCONT == 18
SIGSTOP == 19
SIGTSTP == 20
SIGSYS == 31

\* Signal::from_id: the numbers that name a signal.
AllSignals == (1..15) \cup (17..29) \cup {31}

\* The signals the runs draw from: the four that cannot be caught and one
\* catchable signal of every default action.
UsedSignals == {SIGKILL, SIGSEGV, SIGSTOP, SIGSYS,
                SIGUSR1, SIGQUIT, SIGCHLD, SIGCONT, SIGTSTP}

\* Signal::get_default_action
get_default_action(sig) ==
    CASE sig \in {1, 2, 9, 10, 12, 13, 14, 15, 26, 27, 29} -> "Terminate"
      [] sig \in {3, 4, 5, 6, 7, 8, 11, 24, 25, 31} -> "Abort"
      [] sig \in {17, 23, 28} -> "Ignore"
      [] sig \in {19, 20, 21, 22} -> "Stop"
      [] sig = 18 -> "Continue"

\* can_catch with SIGSEGV and SIGSYS left out of the list.
can_catch_kill_stop_only(sig) == sig \notin {SIGKILL, SIGSTOP}

\* Signal::can_catch
can_catch(sig) == sig \notin {SIGKILL, SIGSEGV, SIGSTOP, SIGSYS}

\* Addresses of the user program of the runs: the system-call instruction,
\* the user stack, the handler, the signal stack and the signal trampoline.
USER_EIP == 100
USER_ESP == 500
HANDLER_ADDR == 200
SIGNAL_STACK == 400
SIGNAL_TRAMPOLINE == 300
\* size_of::<[u32; 3]>()
SIGNAL_DATA_SIZE == 12
\* The length signal_check assumes for the system-call instruction.
SYSCALL_INSN_LEN == 2
\* sa_flags bit: do not block the signal while its handler runs.
SA_NODEFER == 1073741824

\* SignalHandler: Ignore, Default or Handler(SigAction).
SigIgnore == [kind |-> "Ignore", sa_handler |-> 0, sa_mask |-> {}, sa_flags |-> 0]
SigDefault == [kind |-> "Default", sa_handler |-> 1, sa_mask |-> {}, sa_flags |-> 0]
SigHandler(mask, flags) ==
    [kind |-> "Handler", sa_handler |-> HANDLER_ADDR, sa_mask |-> mask, sa_flags |-> flags]

\* The dispositions sigaction installs in the runs.
Dispositions(ss) ==
    {SigIgnore, SigDefault} \cup
    {SigHandler({}, 0), SigHandler(ss, 0), SigHandler({}, SA_NODEFER)}

UserRegs == [eip |-> USER_EIP, esp |-> USER_ESP]

\* Process::new with the given parent and children; every handler Default.
NewProcess(parent, children) ==
    [ parent |-> parent,
      children |-> children,
      state |-> "Running",
      sigpending |-> {},
      sigmask |-> {},
      signal_handlers |-> [g \in AllSignals |-> SigDefault],
      handled_signal |-> 0,
      regs |-> UserRegs,
      saved_regs |-> UserRegs,
      saved_sigmask |-> {},
      signal_data |-> <<0, 0, 0>>,
      syscalling |-> FALSE,
      exit_status |-> 0,
      termsig |-> 0,
      waitable |-> FALSE,
      mem_space |-> TRUE,
      file_descriptors |-> TRUE ]

NoEntry == [regs |-> UserRegs, sigmask |-> {}, sig |-> 0, in_syscall |-> FALSE]

NoProcOp == [op |-> "none", pid |-> 0, sig |-> 0, state |-> "Running",
             handler |-> SigDefault, handling |-> FALSE, mask |-> {},
             regs |-> UserRegs, options |-> {}, ret |-> 0,
             handlers |-> [g \in AllSignals |-> SigDefault], pending |-> {}]

\* The process table after boot: init and its children.
InitTable ==
    [p \in Pids |-> IF p = INIT_PID
                    THEN NewProcess(0, [i \in 1..(MaxPids - 1) |-> i + 1])
                    ELSE NewProcess(INIT_PID, <<>>)]

\* ---- Process methods ----

\* Process::is_init
is_init(pid) == pid = INIT_PID

\* Process::is_handling_signal
is_handling_signal(P) == P.handled_signal # 0

\* Process::signal_clear
signal_clear(P, sig) == [P EXCEPT !.sigpending = @ \ {sig}]

\* Process::get_signal_handler
get_signal_handler(P, sig) == P.signal_handlers[sig]

\* Process::get_next_signal: the first pending signal the mask does not block
\* (0 = None).
get_next_signal(P) ==
    LET deliverable == P.sigpending \ P.sigmask IN
    IF deliverable = {} THEN 0
    ELSE CHOOSE g \in deliverable : \A h \in deliverable : g <= h

\* Process::signal_save: the register frame and the mask go to the save slot.
signal_save(P, sig) ==
    [P EXCEPT !.saved_regs = P.regs,
              !.saved_sigmask = P.sigmask,
              !.handled_signal = sig]

\* Process::signal_restore: the saved frame and mask come back.
signal_restore(P) ==
    [P EXCEPT !.regs = P.saved_regs,
              !.sigmask = P.saved_sigmask,
              !.handled_signal = 0]

\* Wakes the parent of `pid` when it sleeps in wait.
wake_parent(T, pid) ==
    LET parent == T[pid].parent IN
    IF parent \in DOMAIN T /\ T[parent].state = "Sleeping"
    THEN [T EXCEPT ![parent].state = "Running"]
    ELSE T

\* Process::set_waitable: the process becomes waitable for the signal and its
\* parent is woken.
set_waitable(T, pid, sig) ==
    wake_parent([T EXCEPT ![pid].waitable = TRUE, ![pid].termsig = sig], pid)

\* Process::exit: the process becomes a zombie, its resources are released,
\* the status is recorded and the parent can wait on it.
exit(T, pid, status, signaled) ==
    set_waitable([T EXCEPT ![pid].exit_status = status,
                           ![pid].state = "Zombie",
                           ![pid].mem_space = FALSE,
                           ![pid].file_descriptors = FALSE],
                 pid, IF signaled THEN status ELSE 0)

\* ---- Signal::execute_action ----

\* The handler execute_action acts on: Default for a signal that cannot be
\* caught or when no_handler is set, the installed one otherwise.
effective_handler(P, sig, no_handler) ==
    IF ~can_catch(sig) \/ no_handler
    THEN SigDefault
    ELSE get_signal_handler(P, sig)

\* The Terminate / Abort arm with the exit reported as a plain exit
\* (signaled = false).
default_terminate_not_signaled(T, pid, sig) == exit(T, pid, sig, FALSE)

\* The Terminate / Abort arm setting the state without going through exit.
default_terminate_set_state(T, pid, sig) ==
    [T EXCEPT ![pid].state = "Zombie", ![pid].exit_status = sig,
              ![pid].termsig = sig, ![pid].waitable = TRUE]

\* SignalAction::Terminate | SignalAction::Abort: process.exit(id, true).
default_terminate(T, pid, sig) == exit(T, pid, sig, TRUE)

\* SignalAction::Stop
default_stop(T, pid, sig, process_state) ==
    set_waitable(IF process_state = "Running"
                 THEN [T EXCEPT ![pid].state = "Stopped"]
                 ELSE T,
                 pid, sig)

\* SignalAction::Continue
default_continue(T, pid, sig, process_state) ==
    set_waitable(IF process_state = "Stopped"
                 THEN [T EXCEPT ![pid].state = "Running"]
                 ELSE T,
                 pid, sig)

\* The SignalHandler::Default arm for the signal's default action.
default_action(T, pid, sig, process_state) ==
    CASE get_default_action(sig) \in {"Terminate", "Abort"} -> default_terminate(T, pid, sig)
      [] get_default_action(sig) = "Ignore" -> T
      [] get_default_action(sig) = "Stop" -> default_stop(T, pid, sig, process_state)
      [] get_default_action(sig) = "Continue" -> default_continue(T, pid, sig, process_state)

\* The registers execute_action gives the process to enter the handler.
handler_regs(P) ==
    [P.regs EXCEPT !.esp = SIGNAL_STACK - SIGNAL_DATA_SIZE,
                   !.eip = SIGNAL_TRAMPOLINE]

\* The SignalHandler::Handler arm with the state saved after the registers
\* were replaced.
deliver_handler_save_late(P, sig, action) ==
    signal_save([P EXCEPT !.signal_data = <<0, action.sa_handler, sig>>,
                          !.regs = handler_regs(P)], sig)

\* The SignalHandler::Handler arm: the signal data go on the signal stack,
\* the current state is saved (signal_save), then the registers are set to
\* enter the trampoline.  The mask is left as it is.
deliver_handler(P, sig, action) ==
    [signal_save([P EXCEPT !.signal_data = <<0, action.sa_handler, sig>>], sig)
        EXCEPT !.regs = handler_regs(P)]

\* Signal::execute_action on process `pid` of table T.
execute_action(T, pid, sig, no_handler) ==
    LET T1 == [T EXCEPT ![pid] = signal_clear(@, sig)]
        process_state == T1[pid].state
        handler == effective_handler(T1[pid], sig, no_handler)
    IN  IF process_state = "Zombie" THEN T1
        ELSE CASE handler.kind = "Ignore" -> T1
               [] handler.kind = "Default" ->
                    IF can_catch(sig) /\ is_init(pid)
                    THEN T1
                    ELSE default_action(T1, pid, sig, process_state)
               [] handler.kind = "Handler" ->
                    IF ~is_handling_signal(T1[pid])
                    THEN [T1 EXCEPT ![pid] = deliver_handler(@, sig, handler)]
                    ELSE T1

\* What the log keeps of an execute_action: the signal and the state found.
ExecLog(T, pid, sig) ==
    [NoProcOp EXCEPT !.op = "execute_action", !.pid = pid, !.sig = sig,
                     !.state = T[pid].state,
                     !.handler = effective_handler(T[pid], sig, FALSE),
                     !.handling = is_handling_signal(T[pid]),
                     !.mask = T[pid].sigmask,
                     !.regs = T[pid].regs]

\* The registers and mask a handler delivery started from, and whether it
\* interrupted a system call.
EntryLog(T, pid, sig, in_syscall) ==
    IF /\ T[pid].state # "Zombie"
       /\ effective_handler(T[pid], sig, FALSE).kind = "Handler"
       /\ ~is_handling_signal(T[pid])
    THEN [sig_entry EXCEPT ![pid] =
            [regs |-> T[pid].regs, sigmask |-> T[pid].sigmask, sig |-> sig,
             in_syscall |-> in_syscall]]
    ELSE sig_entry

\* ---- operations ----

\* How many kill, sigaction and sigprocmask calls a run makes at most.
MaxKills == 2
MaxSigactions == 2
MaxSigprocmasks == 1

MaxExecs == 1

NoCalls == [kill |-> 0, sigaction |-> 0, sigprocmask |-> 0, exec |-> 0]

\* kill (try_kill): a zombie is left alone; otherwise the signal becomes
\* pending on the target.
kill(target, sig) ==
    /\ calls.kill < MaxKills
    /\ target \in DOMAIN proc_table
    /\ sig \in sigs
    /\ sig \notin proc_table[target].sigpending
    /\ proc_table' = IF proc_table[target].state = "Zombie"
                     THEN proc_table
                     ELSE [proc_table EXCEPT ![target].sigpending = @ \cup {sig}]
    /\ proc_last' = [NoProcOp EXCEPT !.op = "kill", !.pid = target, !.sig = sig]
    /\ calls' = [calls EXCEPT !.kill = @ + 1]
    /\ UNCHANGED <<sigs, subject, sig_entry>>
    /\ ProcFrame

\* sigaction: the process installs a disposition for a signal.
sigaction(p, sig, h) ==
    /\ calls.sigaction < MaxSigactions
    /\ p \in DOMAIN proc_table
    /\ proc_table[p].state = "Running"
    /\ sig \in sigs
    /\ h # proc_table[p].signal_handlers[sig]
    /\ proc_table' = [proc_table EXCEPT ![p].signal_handlers[sig] = h]
    /\ proc_last' = [NoProcOp EXCEPT !.op = "sigaction", !.pid = p, !.sig = sig]
    /\ calls' = [calls EXCEPT !.sigaction = @ + 1]
    /\ UNCHANGED <<sigs, subject, sig_entry>>
    /\ ProcFrame

\* sigprocmask: the process replaces its signal mask.
sigprocmask(p, m) ==
    /\ calls.sigprocmask < MaxSigprocmasks
    /\ p \in DOMAIN proc_table
    /\ proc_table[p].state = "Running"
    /\ m # proc_table[p].sigmask
    /\ proc_table' = [proc_table EXCEPT ![p].sigmask = m]
    /\ proc_last' = [NoProcOp EXCEPT !.op = "sigprocmask", !.pid = p]
    /\ calls' = [calls EXCEPT !.sigprocmask = @ + 1]
    /\ UNCHANGED <<sigs, subject, sig_entry>>
    /\ ProcFrame

\* The length of the instruction (int 0x80) that enters a system call.
INT_INSN_LEN == 2

\* The registers a system call entered at USER_EIP is given: the instruction
\* pointer is past the instruction.
syscall_regs(regs) == [regs EXCEPT !.eip = USER_EIP + INT_INSN_LEN]

\* signal_check without the rewinding of the instruction pointer.
rewind_none(regs) == regs

\* signal_check: the instruction pointer goes back to the instruction that
\* entered the system call (r.eip -= 2).
rewind(regs) == [regs EXCEPT !.eip = @ - SYSCALL_INSN_LEN]

\* signal_check, run by a system call of process p entered at USER_EIP: with
\* a deliverable signal the saved instruction pointer is rewound and the
\* process switches to the signal (prepare_switch executes its action);
\* without one the system call goes on and returns after the instruction.
signal_check(p) ==
    /\ p \in DOMAIN proc_table
    /\ proc_table[p].state = "Running"
    /\ proc_table[p].regs.eip = USER_EIP
    /\ LET regs == syscall_regs(proc_table[p].regs)
           sig == get_next_signal(proc_table[p])
       IN  IF sig # 0
           THEN LET T == [proc_table EXCEPT
                            ![p].regs = rewind(regs),
                            ![p].syscalling = FALSE]
                IN  /\ proc_table' = execute_action(T, p, sig, FALSE)
                    /\ proc_last' = [ExecLog(T, p, sig) EXCEPT !.ret = 1]
                    /\ sig_entry' = EntryLog(T, p, sig, TRUE)
           ELSE /\ proc_table' = [proc_table EXCEPT ![p].regs = regs]
                /\ proc_last' = [NoProcOp EXCEPT !.op = "syscall", !.pid = p]
                /\ UNCHANGED sig_entry
    /\ UNCHANGED <<sigs, subject, calls>>
    /\ ProcFrame

\* The user program jumps back to its system-call instruction.
user_step(p) ==
    /\ p \in DOMAIN proc_table
    /\ proc_table[p].state = "Running"
    /\ proc_table[p].regs.eip = USER_EIP + INT_INSN_LEN
    /\ proc_table' = [proc_table EXCEPT ![p].regs.eip = USER_EIP]
    /\ proc_last' = [NoProcOp EXCEPT !.op = "user_step", !.pid = p]
    /\ UNCHANGED <<sigs, subject, sig_entry, calls>>
    /\ ProcFrame

\* Process::prepare_switch on the way back to user mode: the next deliverable
\* signal of a Running process has its action executed.
prepare_switch(p) ==
    /\ p \in DOMAIN proc_table
    /\ proc_table[p].state = "Running"
    /\ get_next_signal(proc_table[p]) # 0
    /\ LET sig == get_next_signal(proc_table[p]) IN
       /\ proc_table' = execute_action(proc_table, p, sig, FALSE)
       /\ proc_last' = ExecLog(proc_table, p, sig)
       /\ sig_entry' = EntryLog(proc_table, p, sig, FALSE)
    /\ UNCHANGED <<sigs, subject, calls>>
    /\ ProcFrame

\* sigreturn: the handler is over; the saved frame and mask are restored.
sigreturn(p) ==
    /\ p \in DOMAIN proc_table
    /\ proc_table[p].state = "Running"
    /\ is_handling_signal(proc_table[p])
    /\ proc_table' = [proc_table EXCEPT ![p] = signal_restore(@)]
    /\ proc_last' = [NoProcOp EXCEPT !.op = "sigreturn", !.pid = p,
                                     !.sig = proc_table[p].handled_signal]
    /\ UNCHANGED <<sigs, subject, sig_entry, calls>>
    /\ ProcFrame

\* ---- waitpid ----

\* The exit statuses _exit is called with in the runs.
ExitStatuses == {0, 1}

\* The option flags waitpid is called with in the runs, besides WEXITED, which
\* the system call always sets.
WaitFlags == {{}, {"WNOHANG"}, {"WNOWAIT"}, {"WUNTRACED", "WCONTINUED"}}

\* The pid constraints of the runs: any child (-1) or one pid.  Process
\* groups are not modelled.
WaitTargets == {-1} \cup Pids

\* get_target: the i-th target (from 0) for the constraint, 0 for None.
get_target(curr, pid, i) ==
    IF pid = -1
    THEN IF i < Len(curr.children) THEN curr.children[i + 1] ELSE 0
    ELSE IF i = 0 THEN pid ELSE 0

\* get_wstatus
get_wstatus(P) ==
    CASE P.state \in {"Running", "Sleeping"} -> 65535
      [] P.state = "Stopped" -> ((P.termsig % 256) * 256) + 127
      [] P.state = "Zombie" -> ((P.exit_status % 256) * 256) + (P.termsig % 128)

\* The three checks of check_waitable on one target.
stop_check(P, options) == P.state = "Stopped" /\ "WUNTRACED" \in options
exit_check(P, options) == P.state = "Zombie" /\ "WEXITED" \in options
continue_check(P, options) ==
    P.state \in {"Running", "Sleeping"} /\ "WCONTINUED" \in options

\* Process::remove_child
remove_child(P, pid) ==
    [P EXCEPT !.children = SelectSeq(@, LAMBDA c : c # pid)]

\* Scheduler::remove_process
remove_process(T, pid) == [q \in DOMAIN T \ {pid} |-> T[q]]

\* The loop of check_waitable from target i on: the first target that is in
\* the scheduler, waitable and passes a check (found, 0 for none), and the
\* value of i the loop ends with.
RECURSIVE check_loop(_, _, _, _, _)
check_loop(T, curr, pid, options, i) ==
    LET target == get_target(T[curr], pid, i) IN
    IF target = 0 THEN [found |-> 0, i |-> i]
    ELSE IF /\ target \in DOMAIN T
            /\ T[target].waitable
            /\ \/ stop_check(T[target], options)
               \/ exit_check(T[target], options)
               \/ continue_check(T[target], options)
         THEN [found |-> target, i |-> i]
         ELSE check_loop(T, curr, pid, options, i + 1)

\* check_waitable: the result, the wait status and the table afterwards.
check_waitable(T, curr, pid, options) ==
    LET r == check_loop(T, curr, pid, options, 0)
        t == r.found
    IN  IF t # 0
        THEN [result |-> "Some", pid |-> t, wstatus |-> get_wstatus(T[t]),
              table |->
                IF "WNOWAIT" \notin options
                THEN IF exit_check(T[t], options)
                     THEN remove_process(
                            [T EXCEPT ![t].waitable = FALSE,
                                      ![curr] = remove_child(@, t)], t)
                     ELSE [T EXCEPT ![t].waitable = FALSE]
                ELSE T]
        ELSE [result |-> IF r.i = 0 THEN "ECHILD" ELSE "None",
              pid |-> 0, wstatus |-> 0, table |-> T]

\* One round of do_waitpid by process p with no signal to deliver: a waitable
\* target is returned, or the call fails with ECHILD, or returns 0 under
\* WNOHANG, or the process goes to sleep until a target changes state.
waitpid(p, pid, flags) ==
    /\ p \in DOMAIN proc_table
    /\ proc_table[p].state = "Running"
    /\ get_next_signal(proc_table[p]) = 0
    /\ pid # p
    /\ LET options == flags \cup {"WEXITED"}
           r == check_waitable(proc_table, p, pid, options)
           log == [NoProcOp EXCEPT !.op = "waitpid", !.pid = p,
                                   !.options = options]
       IN  CASE r.result = "Some" ->
                  /\ proc_table' = r.table
                  /\ proc_last' = [log EXCEPT !.ret = r.pid, !.sig = r.wstatus]
             [] r.result = "ECHILD" ->
                  /\ proc_table' = proc_table
                  /\ proc_last' = [log EXCEPT !.ret = -10]
             [] r.result = "None" /\ "WNOHANG" \in options ->
                  /\ proc_table' = proc_table
                  /\ proc_last' = [log EXCEPT !.ret = 0]
             [] OTHER ->
                  /\ proc_table' = [proc_table EXCEPT ![p].state = "Sleeping"]
                  /\ proc_last' = [log EXCEPT !.op = "waitpid_sleep"]
    /\ UNCHANGED <<sigs, subject, sig_entry, calls>>
    /\ ProcFrame

\* _exit: a process other than init exits with a status.
exit_call(p, status) ==
    /\ p \in DOMAIN proc_table
    /\ ~is_init(p)
    /\ proc_table[p].state = "Running"
    /\ proc_table' = exit(proc_table, p, status, FALSE)
    /\ proc_last' = [NoProcOp EXCEPT !.op = "exit", !.pid = p, !.ret = status]
    /\ UNCHANGED <<sigs, subject, sig_entry, calls>>
    /\ ProcFrame

\* ---- exec ----

\* The program image of the runs: the same user program again.
Image == [entry_point |-> USER_EIP, user_stack |-> USER_ESP]

\* exec: the image's memory space is installed, the file descriptor table (if
\* any) is duplicated, every signal handler is set to Default, and the
\* registers are set to the entry point and the user stack.
exec(P, image) ==
    [P EXCEPT !.mem_space = TRUE,
              !.signal_handlers = [g \in AllSignals |-> SigDefault],
              !.regs = [eip |-> image.entry_point, esp |-> image.user_stack]]

\* execve by a process that has no deliverable signal and runs no handler.
execve(p) ==
    /\ calls.exec < MaxExecs
    /\ p \in DOMAIN proc_table
    /\ proc_table[p].state = "Running"
    /\ ~is_handling_signal(proc_table[p])
    /\ get_next_signal(proc_table[p]) = 0
    /\ proc_table' = [proc_table EXCEPT ![p] = exec(@, Image)]
    /\ proc_last' = [NoProcOp EXCEPT !.op = "exec", !.pid = p,
                                     !.handlers = proc_table[p].signal_handlers,
                                     !.pending = proc_table[p].sigpending]
    /\ calls' = [calls EXCEPT !.exec = @ + 1]
    /\ UNCHANGED <<sigs, subject, sig_entry>>
    /\ ProcFrame

\* ---- runs ----

\* No process activity: the runs of the node cache and of the scheduler.
InitProcIdle ==
    /\ proc_table = InitTable
    /\ sigs = {}
    /\ subject = 0
    /\ sig_entry = [p \in Pids |-> NoEntry]
    /\ proc_last = NoProcOp
    /\ calls = NoCalls

\* Signal runs: one process (init or a child) and two signals.
InitSignalProcs ==
    /\ proc_table = InitTable
    /\ sigs \in {{SIGUSR1, g} : g \in {SIGKILL, SIGSEGV, SIGSTOP, SIGSYS, SIGCHLD, SIGCONT}}
    /\ subject \in {INIT_PID, INIT_PID + 1}
    /\ sig_entry = [p \in Pids |-> NoEntry]
    /\ proc_last = NoProcOp
    /\ calls = NoCalls

NextSignal ==
    \/ \E sig \in sigs : kill(subject, sig)
    \/ \E sig \in sigs, h \in Dispositions(sigs) : sigaction(subject, sig, h)
    \/ \E m \in SUBSET sigs : sigprocmask(subject, m)
    \/ signal_check(subject)
    \/ user_step(subject)
    \/ prepare_switch(subject)
    \/ sigreturn(subject)

\* Exec runs: one process sets dispositions and a mask, is sent signals, and
\* executes a program.
NextExec ==
    \/ \E sig \in sigs : kill(subject, sig)
    \/ \E sig \in sigs, h \in Dispositions(sigs) : sigaction(subject, sig, h)
    \/ \E m \in SUBSET sigs : sigprocmask(subject, m)
    \/ prepare_switch(subject)
    \/ execve(subject)

\* Wait runs: init, its children, one signal.
InitWaitProcs ==
    /\ proc_table = InitTable
    /\ sigs \in {{g} : g \in {SIGKILL, SIGSTOP, SIGCONT, SIGUSR1}}
    /\ subject = 0
    /\ sig_entry = [p \in Pids |-> NoEntry]
    /\ proc_last = NoProcOp
    /\ calls = NoCalls

NextWait ==
    \/ \E p \in Pids, sig \in sigs : kill(p, sig)
    \/ \E p \in Pids : prepare_switch(p)
    \/ \E p \in Pids, status \in ExitStatuses : exit_call(p, status)
    \/ \E p \in Pids, pid \in WaitTargets, flags \in WaitFlags :
          waitpid(p, pid, flags)

\* ---- properties of signal delivery ----

UncatchableSignals == {SIGKILL, SIGSEGV, SIGSTOP, SIGSYS}

\* The last step executed the action of a signal on a process that was not a
\* zombie.
Executed ==
    /\ proc_last.op = "execute_action"
    /\ proc_last.state # "Zombie"

\* The process the last operation was about.
LastProc == proc_table[proc_last.pid]

\* The default action of the signal shows on the process.
DefaultApplied(P, sig, before) ==
    CASE get_default_action(sig) \in {"Terminate", "Abort"} -> P.state = "Zombie"
      [] get_default_action(sig) = "Stop" -> before = "Running" => P.state = "Stopped"
      [] get_default_action(sig) = "Continue" -> before = "Stopped" => P.state = "Running"
      [] OTHER -> TRUE

\* The process entered the handler of the signal from the registers `before`.
HandlerEntered(P, sig, before) ==
    /\ P.handled_signal = sig
    /\ P.regs = [eip |-> SIGNAL_TRAMPOLINE, esp |-> SIGNAL_STACK - SIGNAL_DATA_SIZE]
    /\ P.saved_regs = before
    /\ P.signal_data[3] = sig

\* C1: a pending signal is cleared only when it is not blocked and its action
\* -- the installed handler, or the default action -- has been applied to the
\* process, also when the process is already running a handler.  (The default
\* action of a catchable signal on init, which the code skips on purpose, is
\* left out.)
C1_ClearedOnlyWithActionApplied ==
    Executed =>
        /\ proc_last.sig \notin proc_last.mask
        /\ CASE proc_last.handler.kind = "Handler" ->
                    HandlerEntered(LastProc, proc_last.sig, proc_last.regs)
             [] /\ proc_last.handler.kind = "Default"
                /\ ~(can_catch(proc_last.sig) /\ is_init(proc_last.pid)) ->
                    DefaultApplied(LastProc, proc_last.sig, proc_last.state)
             [] OTHER -> TRUE

\* C5: when a handler is delivered without SA_NODEFER, the mask in effect
\* while it runs is the old mask, plus sa_mask, plus the signal itself.
C5_HandlerMaskBlocksSignal ==
    ( /\ Executed
      /\ proc_last.handler.kind = "Handler"
      /\ ~proc_last.handling
      /\ proc_last.handler.sa_flags # SA_NODEFER )
    => LastProc.sigmask =
          proc_last.mask \cup proc_last.handler.sa_mask \cup {proc_last.sig}

\* C6: after the handler returns through sigreturn, the register frame and
\* the signal mask are the ones the process had immediately before the
\* delivery.
C6_SigreturnRestoresFrameAndMask ==
    proc_last.op = "sigreturn" =>
        /\ LastProc.regs = sig_entry[proc_last.pid].regs
        /\ LastProc.sigmask = sig_entry[proc_last.pid].sigmask

\* A handler entered after a returned system call under a non-empty mask has
\* returned; the mask was changed while it ran.
C6_Witness ==
    /\ proc_last.op = "sigreturn"
    /\ sig_entry[proc_last.pid].sig = proc_last.sig
    /\ sig_entry[proc_last.pid].regs.eip = USER_EIP + INT_INSN_LEN
    /\ LastProc.sigmask # {}

\* C7: SIGKILL, SIGSEGV, SIGSTOP and SIGSYS take their default action whatever
\* disposition is installed: the process is terminated (stopped for SIGSTOP),
\* and no handler is entered.
C7_UncatchableTakeDefault ==
    (Executed /\ proc_last.sig \in UncatchableSignals) =>
        /\ proc_last.sig # SIGSTOP =>
              /\ LastProc.state = "Zombie"
              /\ LastProc.termsig = proc_last.sig
        /\ proc_last.sig = SIGSTOP =>
              /\ proc_last.state = "Running" => LastProc.state = "Stopped"
              /\ LastProc.waitable
              /\ LastProc.termsig = proc_last.sig
        /\ LastProc.regs = proc_last.regs
        /\ is_handling_signal(LastProc) = proc_last.handling

\* An uncatchable signal was executed on a process that had installed a
\* handler for it.
C7_Witness ==
    /\ Executed
    /\ proc_last.sig \in UncatchableSignals
    /\ proc_last.state = "Running"
    /\ LastProc.signal_handlers[proc_last.sig].kind = "Handler"

C28_ContinueIgnoredUnlessStopped ==
    [][ ( /\ proc_last'.op = "execute_action"
          /\ get_default_action(proc_last'.sig) = "Continue"
          /\ proc_last'.handler.kind = "Default"
          /\ ~is_init(proc_last'.pid)
          /\ proc_last'.state # "Zombie" )
        => IF proc_last'.state = "Stopped"
           THEN proc_table'[proc_last'.pid].state = "Running"
           ELSE /\ proc_table'[proc_last'.pid].state = proc_table[proc_last'.pid].state
                /\ proc_table'[proc_last'.pid].waitable = proc_table[proc_last'.pid].waitable
      ]_vars

\* The children of p that the constraint pid selects and that exist.
SelectedChildren(p, pid) ==
    {c \in DOMAIN proc_table :
        /\ \E k \in 1..Len(proc_table[p].children) : proc_table[p].children[k] = c
        /\ (pid = -1 \/ pid = c)}

\* C36: a waitpid whose pid argument selects no existing child of the caller
\* fails with ECHILD: it neither sleeps nor returns 0 nor returns a process.
C36_WaitpidNoChildFails ==
    [][ \A p \in Pids, pid \in WaitTargets, flags \in WaitFlags :
            (waitpid(p, pid, flags) /\ SelectedChildren(p, pid) = {})
                => (proc_last'.op = "waitpid" /\ proc_last'.ret = -10)
      ]_vars

\* ---- properties of exec ----

\* C12: after exec, every signal whose handler was Ignore before is still
\* Ignore, and every other signal's handler is Default (stated for the
\* signals that can be caught).
C12_ExecKeepsIgnoredSignals ==
    proc_last.op = "exec" =>
        \A g \in {h \in AllSignals : can_catch(h)} :
            LastProc.signal_handlers[g].kind =
                IF proc_last.handlers[g].kind = "Ignore" THEN "Ignore" ELSE "Default"

\* C13: after exec, the set of pending signals of the process is empty
\* (stated for the signals that can be caught).
C13_ExecClearsPendingSignals ==
    proc_last.op = "exec" => \A g \in LastProc.sigpending : ~can_catch(g)

\* ---- properties of exit and wait ----

\* The last step executed a default action of terminating kind on a process
\* that was not a zombie.
DefaultTerminated ==
    /\ Executed
    /\ proc_last.handler.kind = "Default"
    /\ get_default_action(proc_last.sig) \in {"Terminate", "Abort"}

\* The process is a zombie whose wait status carries the signal, and its
\* parent can wait on it.
ZombieOfSignal(pid, sig) ==
    /\ pid \in DOMAIN proc_table
    /\ proc_table[pid].state = "Zombie"
    /\ get_wstatus(proc_table[pid]) % 128 = sig
    /\ proc_table[pid].waitable
    /\ LET parent == proc_table[pid].parent IN
       parent \in DOMAIN proc_table =>
          /\ proc_table[parent].state # "Sleeping"
          /\ \E i \in DOMAIN proc_table[parent].children :
                proc_table[parent].children[i] = pid

\* C8 (as stated): a default action of Terminate or Abort executed on a
\* process that is not a zombie makes it a zombie whose exit status encodes
\* the signal, and its parent becomes able to wait on it.
C8_DefaultTerminateMakesZombie ==
    DefaultTerminated => ZombieOfSignal(proc_last.pid, proc_last.sig)

\* C8 (amended): the same, for a process that is not init or a signal that
\* cannot be caught; the default action of a catchable signal is not executed
\* on init.
C8_DefaultTerminateMakesZombieButInit ==
    (DefaultTerminated /\ ~(can_catch(proc_last.sig) /\ is_init(proc_last.pid)))
    => ZombieOfSignal(proc_last.pid, proc_last.sig)

\* A running child of init was terminated by the default action of SIGUSR1.
C8_Witness ==
    /\ DefaultTerminated
    /\ proc_last.sig = SIGUSR1
    /\ proc_last.pid # INIT_PID
    /\ proc_last.state = "Running"
    /\ proc_table[proc_last.pid].state = "Zombie"

C10_ReapedOnlyByParentFromBoth ==
    /\ \A p \in Pids \ {INIT_PID} :
          INIT_PID \in DOMAIN proc_table =>
             ( p \in DOMAIN proc_table <=>
               \E i \in DOMAIN proc_table[INIT_PID].children :
                   proc_table[INIT_PID].children[i] = p )
    /\ ( /\ proc_last.op = "waitpid"
         /\ proc_last.ret > 0
         /\ proc_last.ret \notin DOMAIN proc_table )
       => proc_last.pid = InitTable[proc_last.ret].parent

----------------------------------------------------------------------------
\* User pointers (process/mem_space/ptr.rs)

\* User memory has the cells 1..MaxAddr; address 0 is the null pointer.
MaxAddr == 3
\* The longest slice asked for.
MaxLen == 2

Addrs == 1..MaxAddr
Mappings == {"none", "ro", "rw"}

\* size_of::<T>() in cells.
SIZE_OF_T == 1

\* The cells of the range of `size` cells at `ptr`.
CellRange(ptr, size) == ptr..(ptr + size - 1)

\* MemSpace::can_access: the whole range is mapped, writable if asked.
can_access(map, ptr, size, write) ==
    \A a \in CellRange(ptr, size) :
        /\ a \in Addrs
        /\ map[a] # "none"
        /\ write => map[a] = "rw"

\* MemSpace::can_access_string: the length of the string at `ptr` if every
\* cell up to and including its terminator is mapped, -1 (None) otherwise.
can_access_string(mem, map, ptr) ==
    LET nuls == {n \in 0..(MaxAddr - ptr) : mem[ptr + n] = 0} IN
    IF nuls = {} THEN -1
    ELSE LET len == CHOOSE n \in nuls : \A k \in nuls : n <= k IN
         IF can_access(map, ptr, len + 1, FALSE) THEN len ELSE -1

\* What a wrapper operation did: its result, the cells a successful probe
\* covered, the cells it read or handed out.
PtrResult(result, probed, accessed) ==
    [result |-> result, probed |-> probed, accessed |-> accessed]

\* SyscallPtr::get
SyscallPtr_get(map, ptr) ==
    IF ptr = 0 THEN PtrResult("None", {}, {})
    ELSE IF ~can_access(map, ptr, SIZE_OF_T, FALSE) THEN PtrResult("EFAULT", {}, {})
    ELSE PtrResult("Some", CellRange(ptr, SIZE_OF_T), CellRange(ptr, SIZE_OF_T))

\* SyscallPtr::get_mut
SyscallPtr_get_mut(map, ptr) ==
    IF ptr = 0 THEN PtrResult("None", {}, {})
    ELSE IF ~can_access(map, ptr, SIZE_OF_T, TRUE) THEN PtrResult("EFAULT", {}, {})
    ELSE PtrResult("Some", CellRange(ptr, SIZE_OF_T), CellRange(ptr, SIZE_OF_T))

\* SyscallSlice::get
SyscallSlice_get(map, ptr, len) ==
    LET size == SIZE_OF_T * len IN
    IF ptr = 0 THEN PtrResult("None", {}, {})
    ELSE IF ~can_access(map, ptr, size, FALSE) THEN PtrResult("EFAULT", {}, {})
    ELSE PtrResult("Some", CellRange(ptr, size), CellRange(ptr, len))

\* SyscallSlice::get_mut
SyscallSlice_get_mut(map, ptr, len) ==
    LET size == SIZE_OF_T * len IN
    IF ptr = 0 THEN PtrResult("None", {}, {})
    ELSE IF ~can_access(map, ptr, size, TRUE) THEN PtrResult("EFAULT", {}, {})
    ELSE PtrResult("Some", CellRange(ptr, size), CellRange(ptr, len))

\* SyscallString::get
SyscallString_get(mem, map, ptr) ==
    IF ptr = 0 THEN PtrResult("None", {}, {})
    ELSE LET len == can_access_string(mem, map, ptr) IN
         IF len = -1 THEN PtrResult("EFAULT", {}, {})
         ELSE PtrResult("Some", CellRange(ptr, len + 1), CellRange(ptr, len))

\* SyscallArrayIterator::next: the element i of the array is read
\* (read_volatile) and, unless it is null, taken as a SyscallString.  The
\* read of a cell that is not mapped faults in the kernel.
SyscallArrayIterator_next(mem, map, arr, i) ==
    IF arr = 0 THEN PtrResult("EFAULT", {}, {})
    ELSE IF arr + i \notin Addrs \/ map[arr + i] = "none"
         THEN PtrResult("fault", {}, {arr + i})
         ELSE LET str_ptr == mem[arr + i] IN
              IF str_ptr = 0 THEN PtrResult("End", {}, {arr + i})
              ELSE LET string == SyscallString_get(mem, map, str_ptr) IN
                   PtrResult(string.result, string.probed,
                             {arr + i} \cup string.accessed)

WrapperKinds == {"SyscallPtr", "SyscallSlice", "SyscallString", "SyscallArray"}

NoPtr == [kind |-> "SyscallPtr", addr |-> 0, i |-> 0]
NoPtrOp == [op |-> "none", result |-> "None", probed |-> {}, accessed |-> {}]

PtrLog(op, r) ==
    [op |-> op, result |-> r.result, probed |-> r.probed, accessed |-> r.accessed]

\* No user pointer in use.
InitPtrIdle ==
    /\ umem = [a \in Addrs |-> 0]
    /\ umap = [a \in Addrs |-> "none"]
    /\ uptr = NoPtr
    /\ ptr_last = NoPtrOp

\* Any content and any mapping of user memory.
InitPtrVars ==
    /\ umem \in [Addrs -> 0..MaxAddr]
    /\ umap \in [Addrs -> Mappings]
    /\ uptr = NoPtr
    /\ ptr_last = NoPtrOp

\* From<usize>: a wrapper is made of a register value.
ptr_from(kind, val) ==
    /\ uptr' = [kind |-> kind, addr |-> val, i |-> 0]
    /\ ptr_last' = PtrLog("from", PtrResult("None", {}, {}))
    /\ UNCHANGED <<umem, umap>>
    /\ PtrFrame

\* get on a SyscallPtr or a SyscallString
ptr_get ==
    /\ uptr.kind \in {"SyscallPtr", "SyscallString"}
    /\ ptr_last' = PtrLog("get",
            IF uptr.kind = "SyscallPtr"
            THEN SyscallPtr_get(umap, uptr.addr)
            ELSE SyscallString_get(umem, umap, uptr.addr))
    /\ UNCHANGED <<umem, umap, uptr>>
    /\ PtrFrame

\* get_mut on a SyscallPtr
ptr_get_mut ==
    /\ uptr.kind = "SyscallPtr"
    /\ ptr_last' = PtrLog("get_mut", SyscallPtr_get_mut(umap, uptr.addr))
    /\ UNCHANGED <<umem, umap, uptr>>
    /\ PtrFrame

\* get on a SyscallSlice
slice_get(len) ==
    /\ uptr.kind = "SyscallSlice"
    /\ ptr_last' = PtrLog("get", SyscallSlice_get(umap, uptr.addr, len))
    /\ UNCHANGED <<umem, umap, uptr>>
    /\ PtrFrame

\* get_mut on a SyscallSlice
slice_get_mut(len) ==
    /\ uptr.kind = "SyscallSlice"
    /\ ptr_last' = PtrLog("get_mut", SyscallSlice_get_mut(umap, uptr.addr, len))
    /\ UNCHANGED <<umem, umap, uptr>>
    /\ PtrFrame

\* next on the iterator of a SyscallArray; the index advances when a string
\* was looked at.
array_next ==
    /\ uptr.kind = "SyscallArray"
    /\ LET r == SyscallArrayIterator_next(umem, umap, uptr.addr, uptr.i) IN
       /\ ptr_last' = PtrLog("next", r)
       /\ uptr' = IF r.result \in {"Some", "EFAULT"} /\ uptr.addr # 0
                  THEN [uptr EXCEPT !.i = @ + 1]
                  ELSE uptr
    /\ UNCHANGED <<umem, umap>>
    /\ PtrFrame

NextPtr ==
    \/ \E kind \in WrapperKinds, val \in 0..MaxAddr : ptr_from(kind, val)
    \/ ptr_get
    \/ ptr_get_mut
    \/ \E len \in 0..MaxLen : slice_get(len)
    \/ \E len \in 0..MaxLen : slice_get_mut(len)
    \/ array_next

\* C14: no operation of the user-pointer wrappers reads or writes a cell of
\* user memory that a successful can_access probe of the operation did not
\* cover; making a wrapper touches no cell, and an operation that fails with
\* EFAULT has touched none.
C14_NoAccessWithoutProbe ==
    /\ ptr_last.accessed \subseteq ptr_last.probed
    /\ ptr_last.op = "from" => ptr_last.accessed = {}
    /\ ptr_last.result = "EFAULT" => ptr_last.accessed = {}

----------------------------------------------------------------------------
\* Path resolution (file/vfs.rs)

\* limits::SYMLOOP_MAX
SYMLOOP_MAX == 40
\* How many links more than SYMLOOP_MAX the longest chain has.
MaxExtraLinks == 3
MaxChain == SYMLOOP_MAX + MaxExtraLinks

\* The filesystems of the runs.  The root directory (inode 0) holds the links
\* named 1..len, link k pointing to the name k + 1; the name len + 1 is a
\* regular file, or, in a cyclic chain, link len points back to the name 1.
\* The root also holds the directory NameD (inode 1), which holds the regular
\* file NameF (inode 2).  root_x and dir_x tell whether the resolver may
\* search the root and the directory.
NameD == MaxChain + 2
NameF == MaxChain + 3
ROOT_INODE == 0
ChainInode(k) == 10 + k

ResConfigs ==
    {c \in [len : 0..MaxChain, cyclic : BOOLEAN, root_x : BOOLEAN, dir_x : BOOLEAN] :
        c.cyclic => c.len >= 1}

\* Filesystem::get_inode: the inode of the entry `name` of a directory, -1
\* when there is none.
get_inode(c, parent, name) ==
    CASE parent = ROOT_INODE /\ name \in 1..c.len -> ChainInode(name)
      [] parent = ROOT_INODE /\ name = c.len + 1 /\ ~c.cyclic -> ChainInode(name)
      [] parent = ROOT_INODE /\ name = NameD -> 1
      [] parent = 1 /\ name = NameF -> 2
      [] OTHER -> -1

\* Filesystem::load_file: the type of the file and, for a link, its target.
load_file(c, inode) ==
    CASE inode \in {ROOT_INODE, 1} -> [type |-> "Directory", target |-> <<>>]
      [] inode \in {ChainInode(k) : k \in 1..c.len} ->
            [type |-> "Link",
             target |-> IF c.cyclic /\ inode = ChainInode(c.len)
                        THEN <<1>>
                        ELSE <<inode - ChainInode(0) + 1>>]
      [] OTHER -> [type |-> "Regular", target |-> <<>>]

\* AccessProfile::can_search_directory
can_search_directory(c, inode) ==
    CASE inode = ROOT_INODE -> c.root_x
      [] inode = 1 -> c.dir_x
      [] OTHER -> TRUE

\* The result of a resolution: the file found (or the parent, for Creatable),
\* how many links were followed, the directories in which a name was looked
\* up.
Resolved(result, inode, follows_count, looked) ==
    [result |-> result, inode |-> inode, followed |-> follows_count,
     looked |-> looked, next_path |-> <<>>]

\* get_file_by_path_impl calls itself on the path with the link replaced by
\* its target, one more link being followed.
Recurse(new_path, follows_count, looked) ==
    [result |-> "recurse", inode |-> -1, followed |-> follows_count,
     looked |-> looked, next_path |-> new_path]

\* get_file_by_path_impl: the loop over the elements of the path from element
\* i on, `inode` being the file reached so far.
RECURSIVE path_loop(_, _, _, _, _, _, _)
path_loop(c, path, follow_links, follows_count, i, inode, looked) ==
    IF i > Len(path) THEN Resolved("Found", inode, follows_count, looked)
    ELSE LET next == get_inode(c, inode, path[i])
             seen == looked \cup {inode}
         IN  IF next = -1 THEN Resolved("ENOENT", -1, follows_count, seen)
             ELSE IF i < Len(path) /\ ~can_search_directory(c, inode)
             THEN Resolved("EACCES", -1, follows_count, seen)
             ELSE IF /\ i < Len(path) \/ follow_links
                     /\ load_file(c, next).type = "Link"
             THEN IF follows_count > SYMLOOP_MAX
                  THEN Resolved("ELOOP", -1, follows_count, seen)
                  ELSE Recurse(SubSeq(path, 1, i - 1) \o load_file(c, next).target
                                  \o SubSeq(path, i + 1, Len(path)),
                               follows_count + 1, seen)
             ELSE path_loop(c, path, follow_links, follows_count, i + 1, next, seen)

\* One call of get_file_by_path_impl: a result, or the call of itself it
\* ends with.
get_file_by_path_impl(c, path, follow_links, follows_count, looked) ==
    path_loop(c, path, follow_links, follows_count, 1, ROOT_INODE, looked)

\* resolve_path: the loop over the components from component i on.
RECURSIVE resolve_loop(_, _, _, _, _, _, _)
resolve_loop(c, path, create, follow_links, i, inode, looked) ==
    IF i > Len(path) THEN Resolved("Found", inode, 0, looked)
    ELSE CASE load_file(c, inode).type = "Directory" ->
                IF ~can_search_directory(c, inode)
                THEN Resolved("EACCES", -1, 0, looked)
                ELSE LET entry == get_inode(c, inode, path[i]) IN
                     IF entry = -1
                     THEN IF i = Len(path) /\ create
                          THEN Resolved("Creatable", inode, 0, looked \cup {inode})
                          ELSE Resolved("ENOENT", -1, 0, looked \cup {inode})
                     ELSE resolve_loop(c, path, create, follow_links, i + 1,
                                       entry, looked \cup {inode})
           [] load_file(c, inode).type = "Link" /\ follow_links ->
                Resolved("panic", -1, 0, looked)
           [] OTHER -> Resolved("ENOTDIR", -1, 0, looked)

\* The absolute paths resolved in the runs.
ResPaths == {<<1>>, <<2>>, <<NameD>>, <<NameD, NameF>>, <<NameF>>}

NoResOp == [op |-> "none", path |-> <<>>, follow_links |-> FALSE,
            result |-> "none", inode |-> -1, followed |-> 0, looked |-> {},
            next_path |-> <<>>]

ResLog(op, path, follow_links, r) ==
    [op |-> op, path |-> path, follow_links |-> follow_links,
     result |-> r.result, inode |-> r.inode, followed |-> r.followed,
     looked |-> r.looked, next_path |-> r.next_path]

InitResIdle ==
    /\ rcfg = [len |-> 0, cyclic |-> FALSE, root_x |-> TRUE, dir_x |-> TRUE]
    /\ res_last = NoResOp

InitResVars ==
    /\ rcfg \in ResConfigs
    /\ res_last = NoResOp

\* get_file_from_path: the first call of get_file_by_path_impl.
get_file_from_path(path, follow_links) ==
    /\ res_last.result # "recurse"
    /\ res_last' = ResLog("get_file_from_path", path, follow_links,
                          get_file_by_path_impl(rcfg, path, follow_links, 0, {}))
    /\ UNCHANGED rcfg
    /\ ResFrame

\* The call of get_file_by_path_impl by itself after a link.
get_file_by_path_recurse ==
    /\ res_last.result = "recurse"
    /\ res_last' = ResLog("get_file_from_path", res_last.path, res_last.follow_links,
                          get_file_by_path_impl(rcfg, res_last.next_path,
                                                res_last.follow_links,
                                                res_last.followed, res_last.looked))
    /\ UNCHANGED rcfg
    /\ ResFrame

\* resolve_path of an absolute path
resolve_path(path, create, follow_links) ==
    /\ res_last.result # "recurse"
    /\ res_last' = ResLog("resolve_path", path, follow_links,
                          resolve_loop(rcfg, path, create, follow_links, 1,
                                       ROOT_INODE, {}))
    /\ UNCHANGED rcfg
    /\ ResFrame

NextRes ==
    \/ \E path \in ResPaths, follow_links \in BOOLEAN :
          get_file_from_path(path, follow_links)
    \/ get_file_by_path_recurse
    \/ \E path \in ResPaths, create \in BOOLEAN, follow_links \in BOOLEAN :
          resolve_path(path, create, follow_links)

\* C15: a resolution that follows more than SYMLOOP_MAX links fails with
\* ELOOP: one that finds a file has followed at most SYMLOOP_MAX links; one
\* that fails with ELOOP had more than SYMLOOP_MAX links to follow.
C15_LinkLimit ==
    res_last.op = "get_file_from_path" =>
        /\ res_last.result = "Found" => res_last.followed <= SYMLOOP_MAX
        /\ res_last.result = "ELOOP" => res_last.followed >= SYMLOOP_MAX

\* C16: a resolution returns a file, or a place to create one, only if the
\* resolver may search every directory in which a component was looked up.
C16_SearchPermissionOnEveryDirectory ==
    res_last.result \in {"Found", "Creatable"} =>
        \A d \in res_last.looked : can_search_directory(rcfg, d)

----------------------------------------------------------------------------
\* Creating, linking and removing files (file/vfs.rs)

\* How many files are created, and how many handles a file has at most.
MaxFiles == 2
MaxOpens == 1

FileNames == {"a", "b"}
FileInodes == 1..MaxFiles

\* The directory and its files: [entries, hard_links, destroyed].
DirState(e, l, d) == [entries |-> e, hard_links |-> l, destroyed |-> d]

\* AccessProfile::can_write_directory: write and search permission.
can_write_directory(c) == c.dir_w /\ c.dir_x

\* AccessProfile::can_write_file
can_write_file(c) == c.file_w

\* get_file_from_parent on the directory, for a name that is not a link.
get_file_from_parent(c, dir, name) ==
    IF ~c.dir_x THEN [result |-> "EACCES", inode |-> 0]
    ELSE IF dir.entries[name] = 0 THEN [result |-> "ENOENT", inode |-> 0]
    ELSE [result |-> "Ok", inode |-> dir.entries[name]]

\* Filesystem::add_file
add_file(dir, name, inode) ==
    [dir EXCEPT !.entries[name] = inode, !.hard_links[inode] = 1]

\* Filesystem::add_link
add_link(dir, name, inode) ==
    [dir EXCEPT !.entries[name] = inode, !.hard_links[inode] = @ + 1]

\* Filesystem::remove_file: the entry goes, the node loses a link and is
\* destroyed with its last one.
fs_remove_file(dir, name) ==
    LET inode == dir.entries[name] IN
    [dir EXCEPT !.entries[name] = 0,
                !.hard_links[inode] = @ - 1,
                !.destroyed[inode] = IF dir.hard_links[inode] = 1 THEN @ + 1 ELSE @]

\* create_link without the permission check on the parent.
vfs_create_link_unchecked(c, dir, target, name) ==
    IF dir.entries[name] # 0
    THEN [result |-> "EEXIST", dir |-> dir]
    ELSE [result |-> "Ok", dir |-> add_link(dir, name, target)]

\* create_file: result and directory afterwards.
vfs_create_file(c, dir, name, inode) ==
    IF get_file_from_parent(c, dir, name).result = "Ok"
    THEN [result |-> "EEXIST", dir |-> dir]
    ELSE IF ~can_write_directory(c)
    THEN [result |-> "EACCES", dir |-> dir]
    ELSE [result |-> "Ok", dir |-> add_file(dir, name, inode)]

\* create_link: result and directory afterwards.
vfs_create_link(c, dir, target, name) ==
    IF ~can_write_directory(c)
    THEN [result |-> "EACCES", dir |-> dir]
    ELSE IF dir.entries[name] # 0
    THEN [result |-> "EEXIST", dir |-> dir]
    ELSE [result |-> "Ok", dir |-> add_link(dir, name, target)]

\* remove_file: result, directory afterwards, and whether the removal was
\* deferred because the file is open and this is its last link.
vfs_remove_file(c, dir, name, is_open) ==
    LET inode == dir.entries[name]
        last_link == dir.hard_links[inode] = 1
    IN  IF ~can_write_file(c) \/ ~can_write_directory(c)
        THEN [result |-> "EACCES", dir |-> dir, defer |-> FALSE]
        ELSE IF last_link /\ is_open
        THEN [result |-> "Ok", dir |-> dir, defer |-> TRUE]
        ELSE [result |-> "Ok", dir |-> fs_remove_file(dir, name), defer |-> FALSE]

CurrentDir == DirState(entries, hard_links, destroyed)

NoVfsOp == [op |-> "none", name |-> "", inode |-> 0, result |-> "none",
            before |-> DirState([n \in FileNames |-> 0],
                                [i \in FileInodes |-> 0],
                                [i \in FileInodes |-> 0]),
            was_open |-> FALSE]

VfsLog(op, name, inode, result) ==
    [op |-> op, name |-> name, inode |-> inode, result |-> result,
     before |-> CurrentDir,
     was_open |-> inode # 0 /\ open_count[inode] > 0]

InitVfsDir ==
    /\ entries = [n \in FileNames |-> 0]
    /\ hard_links = [i \in FileInodes |-> 0]
    /\ open_count = [i \in FileInodes |-> 0]
    /\ deferred = [i \in FileInodes |-> ""]
    /\ destroyed = [i \in FileInodes |-> 0]
    /\ next_ino = 1
    /\ vfs_last = NoVfsOp

InitVfsIdle ==
    /\ vcfg = [dir_w |-> TRUE, dir_x |-> TRUE, file_w |-> TRUE]
    /\ InitVfsDir

InitVfsVars ==
    /\ vcfg \in [dir_w : BOOLEAN, dir_x : BOOLEAN, file_w : BOOLEAN]
    /\ InitVfsDir

SetDir(dir) ==
    /\ entries' = dir.entries
    /\ hard_links' = dir.hard_links
    /\ destroyed' = dir.destroyed

\* The owner of the directory populates it, whatever the caller may do.
populate(name) ==
    /\ next_ino <= MaxFiles
    /\ entries[name] = 0
    /\ SetDir(add_file(CurrentDir, name, next_ino))
    /\ next_ino' = next_ino + 1
    /\ vfs_last' = VfsLog("populate", name, next_ino, "Ok")
    /\ UNCHANGED <<vcfg, open_count, deferred>>
    /\ VfsFrame

create_file(name) ==
    /\ next_ino <= MaxFiles
    /\ LET r == vfs_create_file(vcfg, CurrentDir, name, next_ino) IN
       /\ SetDir(r.dir)
       /\ next_ino' = IF r.result = "Ok" THEN next_ino + 1 ELSE next_ino
       /\ vfs_last' = VfsLog("create_file", name, 0, r.result)
    /\ UNCHANGED <<vcfg, open_count, deferred>>
    /\ VfsFrame

create_link(target, name) ==
    /\ hard_links[target] > 0
    /\ LET r == vfs_create_link(vcfg, CurrentDir, target, name) IN
       /\ SetDir(r.dir)
       /\ vfs_last' = VfsLog("create_link", name, target, r.result)
    /\ UNCHANGED <<vcfg, open_count, deferred, next_ino>>
    /\ VfsFrame

remove_file(name) ==
    /\ entries[name] # 0
    /\ LET inode == entries[name]
           r == vfs_remove_file(vcfg, CurrentDir, name, open_count[inode] > 0)
       IN  /\ SetDir(r.dir)
           /\ deferred' = IF r.defer THEN [deferred EXCEPT ![inode] = name]
                          ELSE deferred
           /\ vfs_last' = VfsLog("remove_file", name, inode, r.result)
    /\ UNCHANGED <<vcfg, open_count, next_ino>>
    /\ VfsFrame

\* A file of the directory is opened.
open(name) ==
    /\ vcfg.dir_x
    /\ entries[name] # 0
    /\ open_count[entries[name]] < MaxOpens
    /\ open_count' = [open_count EXCEPT ![entries[name]] = @ + 1]
    /\ vfs_last' = VfsLog("open", name, entries[name], "Ok")
    /\ UNCHANGED <<vcfg, entries, hard_links, deferred, destroyed, next_ino>>
    /\ VfsFrame

\* A handle is closed; with the last one, a deferred removal is carried out.
close(inode) ==
    /\ open_count[inode] > 0
    /\ open_count' = [open_count EXCEPT ![inode] = @ - 1]
    /\ IF open_count[inode] = 1 /\ deferred[inode] # ""
          /\ entries[deferred[inode]] = inode
       THEN SetDir(fs_remove_file(CurrentDir, deferred[inode]))
       ELSE UNCHANGED <<entries, hard_links, destroyed>>
    /\ deferred' = IF open_count[inode] = 1
                   THEN [deferred EXCEPT ![inode] = ""]
                   ELSE deferred
    /\ vfs_last' = VfsLog("close", "", inode, "Ok")
    /\ UNCHANGED <<vcfg, next_ino>>
    /\ VfsFrame

NextVfs ==
    \/ \E name \in FileNames : populate(name)
    \/ \E name \in FileNames : create_file(name)
    \/ \E target \in FileInodes, name \in FileNames : create_link(target, name)
    \/ \E name \in FileNames : remove_file(name)
    \/ \E name \in FileNames : open(name)
    \/ \E inode \in FileInodes : close(inode)

\* C17: when the last link of an open file is removed, the name stops
\* resolving at once; a node is destroyed at most once, and not while a
\* handle on it is open.
C17_UnlinkOfOpenFileDetachesName ==
    /\ ( /\ vfs_last.op = "remove_file"
         /\ vfs_last.result = "Ok"
         /\ vfs_last.was_open
         /\ vfs_last.before.hard_links[vfs_last.inode] = 1 )
       => entries[vfs_last.name] = 0
    /\ \A i \in FileInodes :
          /\ destroyed[i] <= 1
          /\ destroyed[i] = 1 => open_count[i] = 0

\* The last operation was create_file, create_link or remove_file.
ParentChanging == vfs_last.op \in {"create_file", "create_link", "remove_file"}

\* C18 (as stated): create_file, create_link and remove_file succeed only with
\* write and search permission on the parent; without them they fail with
\* EACCES and leave the directory and the link counts unchanged.
C18_ParentWriteSearchOrAccess ==
    ParentChanging =>
        /\ vfs_last.result = "Ok" => can_write_directory(vcfg)
        /\ ~can_write_directory(vcfg) =>
              /\ vfs_last.result = "EACCES"
              /\ CurrentDir = vfs_last.before

\* C18 (amended): the same, except that create_file of a name that exists in a
\* parent the caller may search fails with EEXIST.
C18_ParentWriteSearchOrAccessOrExists ==
    ParentChanging =>
        /\ vfs_last.result = "Ok" => can_write_directory(vcfg)
        /\ ~can_write_directory(vcfg) =>
              /\ \/ vfs_last.result = "EACCES"
                 \/ /\ vfs_last.op = "create_file"
                    /\ vfs_last.result = "EEXIST"
                    /\ vcfg.dir_x
                    /\ vfs_last.before.entries[vfs_last.name] # 0
              /\ CurrentDir = vfs_last.before

\* A link to an existing file was refused for lack of permission on the
\* parent.
C18_Witness ==
    /\ vfs_last.op = "create_link"
    /\ ~can_write_directory(vcfg)
    /\ vfs_last.result = "EACCES"
    /\ vfs_last.before.entries[vfs_last.name] = 0

----------------------------------------------------------------------------
\* mmap (syscall/mmap.rs)

PAGE_SIZE == 4096

\* The user half of the memory space: pages 1..MaxPage; page 0 holds the
\* null address and is never handed out.
MaxPage == 3
MaxMaps == 3
UserPages == 1..MaxPage

\* 2^32 / PAGE_SIZE: the pages of a 32-bit address space
ADDR_SPACE_PAGES == 1048576

div_ceil(a, b) == (a + b - 1) \div b

MapNone == [kind |-> "None", addr |-> 0]
MapHint(addr) == [kind |-> "Hint", addr |-> addr]
MapFixed(addr) == [kind |-> "Fixed", addr |-> addr]

\* Pages b..b+n-1 lie in the user half.
InUserHalf(b, n) == b >= 1 /\ b + n - 1 <= MaxPage

\* Bases of the free ranges of n pages.
FreeBases(mp, n) ==
    {b \in UserPages : InUserHalf(b, n) /\ \A q \in b..(b + n - 1) : mp[q] = 0}

MapOk(ptr, mp) == [ok |-> TRUE, ptr |-> ptr, mp |-> mp]
MapErr(mp) == [ok |-> FALSE, ptr |-> 0, mp |-> mp]

\* Maps the n pages from page b on as mapping id, over whatever is there.
MapAt(mp, b, n, id) ==
    MapOk(b * PAGE_SIZE, [q \in UserPages |-> IF q \in b..(b + n - 1) THEN id ELSE mp[q]])

\* Gap search: the lowest free range.
MapAnywhere(mp, n, id) ==
    IF FreeBases(mp, n) = {} THEN MapErr(mp)
    ELSE MapAt(mp, CHOOSE b \in FreeBases(mp, n) : \A c \in FreeBases(mp, n) : b <= c, n, id)

\* MemSpace::map
mem_space_map(mp, constraint, n, id) ==
    LET b == constraint.addr \div PAGE_SIZE IN
    CASE constraint.kind = "Fixed" ->
            IF InUserHalf(b, n) THEN MapAt(mp, b, n, id) ELSE MapErr(mp)
      [] constraint.kind = "Hint" ->
            IF b \in FreeBases(mp, n) THEN MapAt(mp, b, n, id)
            ELSE MapAnywhere(mp, n, id)
      [] OTHER -> MapAnywhere(mp, n, id)

MmapErr(e, mp) == [ok |-> FALSE, ret |-> 0, errno |-> e, mp |-> mp]

\* do_mmap for an anonymous mapping (fd < 0).
do_mmap(mp, addr, length, fixed, id) ==
    IF addr % PAGE_SIZE # 0 \/ length = 0 THEN MmapErr("EINVAL", mp)
    ELSE
    LET pages == div_ceil(length, PAGE_SIZE)
        constraint == IF addr # 0
                      THEN IF fixed THEN MapFixed(addr) ELSE MapHint(addr)
                      ELSE MapNone
        result == mem_space_map(mp, constraint, pages, id)
        again == mem_space_map(mp, MapNone, pages, id)
    IN  IF pages = 0 THEN MmapErr("EINVAL", mp)
        ELSE IF addr \div PAGE_SIZE + pages >= ADDR_SPACE_PAGES THEN MmapErr("EINVAL", mp)
        ELSE IF result.ok
        THEN [ok |-> TRUE, ret |-> result.ptr, errno |-> "", mp |-> result.mp]
        ELSE IF constraint # MapNone
        THEN IF again.ok
             THEN [ok |-> TRUE, ret |-> again.ptr, errno |-> "", mp |-> again.mp]
             ELSE MmapErr("ENOMEM", mp)
        ELSE MmapErr("ENOMEM", mp)

\* Addresses and lengths passed to mmap: null, the user pages, the first page
\* of the kernel half, an unaligned address; nothing, a byte, a page, a page
\* and a byte.
MmapAddrs == {q * PAGE_SIZE : q \in 0..(MaxPage + 1)} \cup {100}
MmapLengths == {0, 1, PAGE_SIZE, PAGE_SIZE + 1}

NoMmapOp == [op |-> "none", addr |-> 0, length |-> 0, fixed |-> FALSE,
             ok |-> FALSE, ret |-> 0, errno |-> "", id |-> 0]

InitMmapIdle ==
    /\ mappings = [q \in UserPages |-> 0]
    /\ next_map = 1
    /\ mmap_last = NoMmapOp

mmap(addr, length, fixed) ==
    /\ next_map <= MaxMaps
    /\ LET r == do_mmap(mappings, addr, length, fixed, next_map) IN
       /\ mappings' = r.mp
       /\ next_map' = IF r.ok THEN next_map + 1 ELSE next_map
       /\ mmap_last' = [op |-> "mmap", addr |-> addr, length |-> length,
                        fixed |-> fixed, ok |-> r.ok, ret |-> r.ret,
                        errno |-> r.errno, id |-> next_map]
    /\ MmapFrame

\* MemSpace::unmap of one page
munmap(q) ==
    /\ mappings[q] # 0
    /\ mappings' = [mappings EXCEPT ![q] = 0]
    /\ mmap_last' = [NoMmapOp EXCEPT !.op = "munmap", !.addr = q * PAGE_SIZE]
    /\ UNCHANGED next_map
    /\ MmapFrame

NextMmap ==
    \/ \E addr \in MmapAddrs, length \in MmapLengths, fixed \in BOOLEAN :
          mmap(addr, length, fixed)
    \/ \E q \in UserPages : munmap(q)

\* C19: a successful mmap with MAP_FIXED returns the requested address, and
\* the requested range then belongs to the new mapping.
C19_FixedReturnsRequestedAddress ==
    (mmap_last.op = "mmap" /\ mmap_last.ok /\ mmap_last.fixed)
       => /\ mmap_last.ret = mmap_last.addr
          /\ \A q \in UserPages :
                q \in (mmap_last.addr \div PAGE_SIZE)
                      ..((mmap_last.addr + mmap_last.length - 1) \div PAGE_SIZE)
                   => mappings[q] = mmap_last.id

----------------------------------------------------------------------------
\* The mapping list of a memory space (MemSpace::map, MemSpace::unmap)

MaxMemPage == 4
MaxMemMaps == 3
MemPages == 1..MaxMemPage

\* The pages of mapping m / the pages b..b+n-1.
MappingPages(m) == m.begin..(m.begin + m.pages - 1)
RangePages(b, n) == b..(b + n - 1)

Mapping(b, n, id) == [begin |-> b, pages |-> n, id |-> id]

\* What is left of mapping m once the pages b..b+n-1 are unmapped: the part
\* below the range and the part above it.
MappingRemains(m, b, n) ==
    LET m_end == m.begin + m.pages
        below == IF m.begin < b /\ m_end > m.begin
                 THEN <<Mapping(m.begin, (IF m_end < b THEN m_end ELSE b) - m.begin, m.id)>>
                 ELSE <<>>
        above == IF m_end > b + n
                 THEN LET from == IF m.begin > b + n THEN m.begin ELSE b + n
                      IN <<Mapping(from, m_end - from, m.id)>>
                 ELSE <<>>
    IN  below \o above

\* The list with nothing unmapped.
list_unmap_nothing(list, b, n) == list

\* MemSpace::unmap: every mapping is cut down to what lies outside the range.
RECURSIVE list_unmap(_, _, _)
list_unmap(list, b, n) ==
    IF list = <<>> THEN <<>>
    ELSE MappingRemains(Head(list), b, n) \o list_unmap(Tail(list), b, n)

\* Insertion of a mapping at its place by base address.
list_insert(list, m) ==
    LET Below(x) == x.begin < m.begin
        NotBelow(x) == x.begin >= m.begin
    IN  SelectSeq(list, Below) \o <<m>> \o SelectSeq(list, NotBelow)

\* Bases of the gaps of n pages.
list_gaps(list, n) ==
    {b \in MemPages :
        /\ b + n - 1 <= MaxMemPage
        /\ \A k \in 1..Len(list) : MappingPages(list[k]) \cap RangePages(b, n) = {}}

ListOk(ptr, list) == [ok |-> TRUE, ptr |-> ptr, list |-> list]
ListErr(list) == [ok |-> FALSE, ptr |-> 0, list |-> list]

list_map_anywhere(list, n, id) ==
    IF list_gaps(list, n) = {} THEN ListErr(list)
    ELSE LET b == CHOOSE g \in list_gaps(list, n) : \A c \in list_gaps(list, n) : g <= c
         IN ListOk(b * PAGE_SIZE, list_insert(list, Mapping(b, n, id)))

\* MemSpace::map on the mapping list.
list_map(list, constraint, n, id) ==
    LET b == constraint.addr \div PAGE_SIZE IN
    CASE constraint.kind = "Fixed" ->
            IF b >= 1 /\ b + n - 1 <= MaxMemPage
            THEN ListOk(b * PAGE_SIZE, list_insert(list_unmap(list, b, n), Mapping(b, n, id)))
            ELSE ListErr(list)
      [] constraint.kind = "Hint" ->
            IF b \in list_gaps(list, n)
            THEN ListOk(b * PAGE_SIZE, list_insert(list, Mapping(b, n, id)))
            ELSE list_map_anywhere(list, n, id)
      [] OTHER -> list_map_anywhere(list, n, id)

MemConstraints ==
    {MapNone} \cup {MapHint(q * PAGE_SIZE) : q \in MemPages}
              \cup {MapFixed(q * PAGE_SIZE) : q \in 1..(MaxMemPage + 1)}

NoMemOp == [op |-> "none", constraint |-> MapNone, pages |-> 0, ok |-> FALSE,
            before |-> <<>>]

InitMemIdle ==
    /\ mem_list = <<>>
    /\ mem_next = 1
    /\ mem_last = NoMemOp

\* MemSpace::map, as do_mmap calls it.
mem_map(constraint, n) ==
    /\ mem_next <= MaxMemMaps
    /\ LET r == list_map(mem_list, constraint, n, mem_next) IN
       /\ mem_list' = r.list
       /\ mem_next' = IF r.ok THEN mem_next + 1 ELSE mem_next
       /\ mem_last' = [op |-> "map", constraint |-> constraint, pages |-> n,
                       ok |-> r.ok, before |-> mem_list]
    /\ MemFrame

\* alloc_segment: a loadable segment is mapped at its fixed address.
alloc_segment(mem_begin, n) ==
    /\ mem_next <= MaxMemMaps
    /\ LET r == list_map(mem_list, MapFixed(mem_begin), n, mem_next) IN
       /\ mem_list' = r.list
       /\ mem_next' = IF r.ok THEN mem_next + 1 ELSE mem_next
       /\ mem_last' = [op |-> "alloc_segment", constraint |-> MapFixed(mem_begin),
                       pages |-> n, ok |-> r.ok, before |-> mem_list]
    /\ MemFrame

\* MemSpace::unmap
mem_unmap(b, n) ==
    /\ mem_list' = list_unmap(mem_list, b, n)
    /\ mem_last' = [op |-> "unmap", constraint |-> MapFixed(b * PAGE_SIZE),
                    pages |-> n, ok |-> TRUE, before |-> mem_list]
    /\ UNCHANGED mem_next
    /\ MemFrame

NextMem ==
    \/ \E c \in MemConstraints, n \in 1..MaxMemPage : mem_map(c, n)
    \/ \E q \in MemPages, n \in 1..2 : alloc_segment(q * PAGE_SIZE, n)
    \/ \E b \in MemPages, n \in 1..2 : mem_unmap(b, n)

----------------------------------------------------------------------------
\* Locks taken by system calls (syscall/_llseek.rs, getdents.rs, linkat.rs,
\* access.rs, utimensat.rs)

\* Two processes that share their file descriptor table and memory space.
LockProcs == 1..2

\* The locks: the shared file descriptor table, an open file, the shared
\* memory space, a file and a directory of the VFS.
Locks == {"fds", "open_file", "mem_space", "file", "parent"}

\* The documented order: fd-table, open-file, memory-space, VFS entry,
\* filesystem, page-cache.
LockRank(l) ==
    CASE l = "fds" -> 1
      [] l = "open_file" -> 2
      [] l = "mem_space" -> 3
      [] l \in {"file", "parent"} -> 4

Acq(l) == [do |-> "lock", lock |-> l]
Rel(l) == [do |-> "drop", lock |-> l]

\* _llseek: fds, open file, then the memory space for the result.
llseek_locks ==
    <<Acq("fds"), Acq("open_file"), Acq("mem_space"), Rel("mem_space"),
      Rel("open_file"), Rel("fds")>>

\* getdents: fds in a block of its own, then open file, memory space, file.
getdents_locks ==
    <<Acq("fds"), Rel("fds"), Acq("open_file"), Acq("mem_space"), Acq("file"),
      Rel("file"), Rel("mem_space"), Rel("open_file")>>

\* linkat: memory space in a block of its own, then fds, the old file, the
\* new parent.
linkat_locks ==
    <<Acq("mem_space"), Rel("mem_space"), Acq("fds"), Acq("file"), Acq("parent"),
      Rel("parent"), Rel("file"), Rel("fds")>>

\* access: memory space, then fds while it is held; the file afterwards.
access_locks ==
    <<Acq("mem_space"), Acq("fds"), Rel("fds"), Rel("mem_space"), Acq("file"),
      Rel("file")>>

\* utimensat: memory space, then fds, then the file, all held to the end.
utimensat_locks ==
    <<Acq("mem_space"), Acq("fds"), Acq("file"), Rel("file"), Rel("fds"),
      Rel("mem_space")>>

Syscalls == {"_llseek", "getdents", "linkat", "access", "utimensat"}

syscall_locks(call) ==
    CASE call = "_llseek" -> llseek_locks
      [] call = "getdents" -> getdents_locks
      [] call = "linkat" -> linkat_locks
      [] call = "access" -> access_locks
      [] call = "utimensat" -> utimensat_locks

InitLockIdle ==
    /\ lk_owner = [l \in Locks |-> 0]
    /\ lk_call = [t \in LockProcs |-> "idle"]
    /\ lk_pc = [t \in LockProcs |-> 0]
    /\ lk_held = [t \in LockProcs |-> <<>>]

\* The step process t is at, in the system call it is in.
NextStep(t) == syscall_locks(lk_call[t])[lk_pc[t]]
InCall(t) == lk_call[t] # "idle" /\ lk_pc[t] <= Len(syscall_locks(lk_call[t]))

syscall_enter(t, call) ==
    /\ lk_call[t] = "idle"
    /\ lk_call' = [lk_call EXCEPT ![t] = call]
    /\ lk_pc' = [lk_pc EXCEPT ![t] = 1]
    /\ UNCHANGED <<lk_owner, lk_held>>
    /\ LockFrame

\* Mutex::lock: taken when free, waited for otherwise.
mutex_lock(t) ==
    /\ InCall(t)
    /\ NextStep(t).do = "lock"
    /\ lk_owner[NextStep(t).lock] = 0
    /\ lk_owner' = [lk_owner EXCEPT ![NextStep(t).lock] = t]
    /\ lk_held' = [lk_held EXCEPT ![t] = Append(@, NextStep(t).lock)]
    /\ lk_pc' = [lk_pc EXCEPT ![t] = @ + 1]
    /\ UNCHANGED lk_call
    /\ LockFrame

\* The guard is dropped.
mutex_drop(t) ==
    /\ InCall(t)
    /\ NextStep(t).do = "drop"
    /\ lk_owner' = [lk_owner EXCEPT ![NextStep(t).lock] = 0]
    /\ lk_held' = [lk_held EXCEPT ![t] =
                      LET Other(l) == l # NextStep(t).lock IN SelectSeq(@, Other)]
    /\ lk_pc' = [lk_pc EXCEPT ![t] = @ + 1]
    /\ UNCHANGED lk_call
    /\ LockFrame

syscall_return(t) ==
    /\ lk_call[t] # "idle"
    /\ ~InCall(t)
    /\ lk_call' = [lk_call EXCEPT ![t] = "idle"]
    /\ lk_pc' = [lk_pc EXCEPT ![t] = 0]
    /\ UNCHANGED <<lk_owner, lk_held>>
    /\ LockFrame

NextLock ==
    \/ \E t \in LockProcs, call \in Syscalls : syscall_enter(t, call)
    \/ \E t \in LockProcs : mutex_lock(t)
    \/ \E t \in LockProcs : mutex_drop(t)
    \/ \E t \in LockProcs : syscall_return(t)

\* Process t waits for a lock that process u holds.
WaitsFor(t, u) ==
    /\ InCall(t)
    /\ NextStep(t).do = "lock"
    /\ lk_owner[NextStep(t).lock] = u

\* C22: a process takes the locks it holds together in the documented order,
\* and no two processes wait for each other's locks.
C22_LocksTakenInOrder ==
    /\ \A t \in LockProcs : \A j \in 1..Len(lk_held[t]), k \in 1..Len(lk_held[t]) :
          j < k => LockRank(lk_held[t][j]) <= LockRank(lk_held[t][k])
    /\ \A t \in LockProcs, u \in LockProcs :
          t # u => ~(WaitsFor(t, u) /\ WaitsFor(u, t))

\* Two processes wait for each other.
NoWaitCycle ==
    \A t \in LockProcs, u \in LockProcs : t # u => ~(WaitsFor(t, u) /\ WaitsFor(u, t))

----------------------------------------------------------------------------
\* Page directory and page tables (memory/vmem.rs)

\* Entries per directory and per table (1024 on x86), frames of physical
\* memory, and calls of map.
TableEntries == 2
PhysFrames == 8
MaxVmemMaps == 3

EntryIdx == 0..(TableEntries - 1)
Frames == 0..(PhysFrames - 1)

\* Frame 0 is the memory at physical address 0, frame 1 the page directory;
\* the buddy allocator hands out frames 2..4; frames 5.. hold data.
VMEM == 1
FIRST_TABLE_FRAME == VMEM + 1
LAST_TABLE_FRAME == VMEM + 3
DataFrames == (LAST_TABLE_FRAME + 1)..(PhysFrames - 1)

PAGING_TABLE_PRESENT == "PRESENT"
PAGING_TABLE_PAGE_SIZE == "PAGE_SIZE"
PAGING_PAGE_PRESENT == "PRESENT"
PAGING_PAGE_WRITE == "WRITE"

\* A paging entry: a frame address and flags.
PagingEntry(addr, flags) == [addr |-> addr, flags |-> flags]
ZeroEntry == PagingEntry(0, {})

\* A virtual address: its index in the directory and its index in the table.
VirtAddrs == [dir : EntryIdx, tab : EntryIdx]
get_addr_element_index(ptr, level) == IF level = 1 THEN ptr.dir ELSE ptr.tab

\* A pointer to an entry, and the entry i places after it in memory.
EntryPtr(frame, idx) == [frame |-> frame, idx |-> idx]
NoEntryPtr == [frame |-> -1, idx |-> -1]
ptr_add(e, i) ==
    EntryPtr((e.frame + (e.idx + i) \div TableEntries) % PhysFrames,
             (e.idx + i) % TableEntries)
deref(mem, e) == mem[e.frame][e.idx]
store(mem, e, v) == [mem EXCEPT ![e.frame][e.idx] = v]

\* resolve: the entry that translates ptr, if it is present.
resolve(mem, ptr) ==
    LET dir_entry == EntryPtr(VMEM, get_addr_element_index(ptr, 1))
        dir_entry_value == deref(mem, dir_entry)
        table_entry == EntryPtr(dir_entry_value.addr, get_addr_element_index(ptr, 0))
    IN  IF PAGING_TABLE_PRESENT \notin dir_entry_value.flags THEN NoEntryPtr
        ELSE IF PAGING_TABLE_PAGE_SIZE \notin dir_entry_value.flags THEN dir_entry
        ELSE IF PAGING_PAGE_PRESENT \notin deref(mem, table_entry).flags THEN NoEntryPtr
        ELSE table_entry

is_mapped(mem, ptr) == resolve(mem, ptr) # NoEntryPtr

\* translate: the physical address (-1 = None).
translate(mem, ptr) ==
    IF resolve(mem, ptr) # NoEntryPtr THEN deref(mem, resolve(mem, ptr)).addr ELSE -1

VmOk(mem, next) == [ok |-> TRUE, panic |-> FALSE, mem |-> mem, next |-> next]
VmErr(mem, next) == [ok |-> FALSE, panic |-> FALSE, mem |-> mem, next |-> next]
VmPanic(mem, next) == [ok |-> FALSE, panic |-> TRUE, mem |-> mem, next |-> next]

\* create_table: a zeroed frame from the buddy allocator becomes the table of
\* directory entry index.
create_table(mem, next, index, flags) ==
    IF next > LAST_TABLE_FRAME THEN VmErr(mem, next)
    ELSE VmOk(store([mem EXCEPT ![next] = [i \in EntryIdx |-> ZeroEntry]],
                    EntryPtr(VMEM, index),
                    PagingEntry(next, flags \cup {PAGING_TABLE_PRESENT})),
              next + 1)

\* The loop of expand_table: entries i.. from table_entry on are filled.
RECURSIVE expand_fill(_, _, _, _, _)
expand_fill(mem, table_entry, base_addr, flags, i) ==
    IF i >= TableEntries THEN mem
    ELSE expand_fill(store(mem, ptr_add(table_entry, i),
                           PagingEntry((base_addr + i) % PhysFrames,
                                       flags \cup {PAGING_PAGE_PRESENT})),
                     table_entry, base_addr, flags, i + 1)

\* expand_table
expand_table(mem, next, index, debug) ==
    LET table_entry == EntryPtr(VMEM, index)
        table_entry_value == deref(mem, table_entry)
        base_addr == table_entry_value.addr
        flags == table_entry_value.flags
        created == create_table(mem, next, index, flags)
    IN  IF debug /\ (PAGING_TABLE_PRESENT \notin flags \/ PAGING_TABLE_PAGE_SIZE \notin flags)
        THEN VmPanic(mem, next)
        ELSE IF ~created.ok THEN created
        ELSE VmOk(expand_fill(created.mem, table_entry, base_addr, flags, 0), created.next)

\* map
vmem_map(mem, next, physaddr, virtaddr, flags, debug) ==
    LET dir_entry_index == get_addr_element_index(virtaddr, 1)
        dir_entry == EntryPtr(VMEM, dir_entry_index)
        dir_entry_value == deref(mem, dir_entry)
        prepared ==
            IF PAGING_TABLE_PRESENT \notin dir_entry_value.flags
            THEN create_table(mem, next, dir_entry_index, flags)
            ELSE IF PAGING_TABLE_PAGE_SIZE \notin dir_entry_value.flags
            THEN expand_table(mem, next, dir_entry_index, debug)
            ELSE VmOk(mem, next)
        dir_entry_ptr == dir_entry_value.addr
        table_entry == EntryPtr(dir_entry_ptr, get_addr_element_index(virtaddr, 0))
    IN  IF ~prepared.ok THEN prepared
        ELSE VmOk(store(prepared.mem, table_entry, PagingEntry(physaddr, flags)),
                  prepared.next)

MapFlags == {{PAGING_PAGE_WRITE}, {PAGING_PAGE_PRESENT, PAGING_PAGE_WRITE},
             {PAGING_PAGE_PRESENT, PAGING_TABLE_PAGE_SIZE}}

NoVmemOp == [op |-> "none", physaddr |-> 0, virtaddr |-> [dir |-> 0, tab |-> 0],
             flags |-> {}, ok |-> FALSE, table_existed |-> FALSE, calls |-> 0]

\* init: a zeroed page directory.
InitVmemMem ==
    /\ vm_mem = [f \in Frames |-> [i \in EntryIdx |-> ZeroEntry]]
    /\ vm_next = FIRST_TABLE_FRAME
    /\ vm_last = NoVmemOp

InitVmemIdle ==
    /\ InitVmemMem
    /\ vm_build = [debug |-> FALSE, panicked |-> FALSE]

InitVmemVars ==
    /\ InitVmemMem
    /\ vm_build \in [debug : BOOLEAN, panicked : {FALSE}]

map(physaddr, virtaddr, flags) ==
    /\ ~vm_build.panicked
    /\ vm_last.calls < MaxVmemMaps
    /\ LET r == vmem_map(vm_mem, vm_next, physaddr, virtaddr, flags, vm_build.debug) IN
       /\ vm_mem' = r.mem
       /\ vm_next' = r.next
       /\ vm_build' = [vm_build EXCEPT !.panicked = r.panic]
       /\ vm_last' = [op |-> "map", physaddr |-> physaddr, virtaddr |-> virtaddr,
                      flags |-> flags, ok |-> r.ok,
                      table_existed |->
                          PAGING_TABLE_PRESENT \in
                              deref(vm_mem, EntryPtr(VMEM, virtaddr.dir)).flags,
                      calls |-> vm_last.calls + 1]
    /\ VmemFrame

NextVmem ==
    \E physaddr \in DataFrames, virtaddr \in VirtAddrs, flags \in MapFlags :
        map(physaddr, virtaddr, flags)

\* C23: after map succeeds, translate gives the physical address that was
\* mapped and is_mapped is true, whether or not the page table existed.
C23_MapThenTranslate ==
    (vm_last.op = "map" /\ vm_last.ok)
       => /\ translate(vm_mem, vm_last.virtaddr) = vm_last.physaddr
          /\ is_mapped(vm_mem, vm_last.virtaddr)

----------------------------------------------------------------------------
\* The initial stack of an ELF program (process/exec/elf.rs)

\* Strings are sequences of non-zero bytes.
MaxStrLen == 2
MaxArgs == 2
MaxEnvs == 1

ArgStrings == UNION {[1..n -> {65, 66}] : n \in 0..MaxStrLen}
ArgVectors(count) == UNION {[1..n -> ArgStrings] : n \in 0..count}

AT_NULL == 0
AT_UID == 11
AT_PLATFORM == 15
SIZE_OF_AUX_ENTRY == 8
SIZE_OF_U32 == 4

\* process::USER_STACK_SIZE, in pages, and the top of the stack mapping.
USER_STACK_SIZE == 2048
USER_STACK_TOP == 4096 * PAGE_SIZE

AuxNumber(t, n) == [a_type |-> t, string |-> FALSE, number |-> n, bytes |-> <<>>]
AuxString(t, b) == [a_type |-> t, string |-> TRUE, number |-> 0, bytes |-> b]

\* build_auxiliary: number entries, string entries, AT_NULL at the end.
AuxVectors ==
    { <<AuxNumber(AT_UID, 1000), AuxString(AT_PLATFORM, <<109>>), AuxNumber(AT_NULL, 0)>>,
      <<AuxNumber(AT_UID, 0), AuxString(AT_PLATFORM, <<109, 97, 101>>), AuxNumber(AT_NULL, 0)>> }

RECURSIVE strings_size(_)
strings_size(strs) ==
    IF strs = <<>> THEN 0 ELSE Len(Head(strs)) + 1 + strings_size(Tail(strs))

RECURSIVE aux_strings_size(_)
aux_strings_size(aux) ==
    IF aux = <<>> THEN 0
    ELSE (IF Head(aux).string THEN Len(Head(aux).bytes) + 1 ELSE 0)
         + aux_strings_size(Tail(aux))

\* get_init_stack_size without the padding of the information block.
get_init_stack_size_unpadded(argv, envp, aux) ==
    LET info_block_size == aux_strings_size(aux) + strings_size(envp) + strings_size(argv)
    IN  [info |-> info_block_size,
         total |-> info_block_size + Len(aux) * SIZE_OF_AUX_ENTRY
                   + (Len(envp) * 4 + 4) + (Len(argv) * 4 + 8)]

\* get_init_stack_size: the size of the information block, padding included,
\* and the size of all the data written on the stack.
get_init_stack_size(argv, envp, aux) ==
    LET info_block_size == aux_strings_size(aux) + strings_size(envp) + strings_size(argv)
        info_block_pad == 4 - (info_block_size % 4)
        aux_size == Len(aux) * SIZE_OF_AUX_ENTRY
        envp_size == Len(envp) * 4 + 4
        argv_size == Len(argv) * 4 + 8
    IN  [info |-> info_block_size + info_block_pad,
         total |-> info_block_size + info_block_pad + aux_size + envp_size + argv_size]

\* Stack memory: bytes at offsets 0..total-1 from the final stack pointer;
\* -1 is a byte that was never written.
Uninit == -1
ByteOf(v, k) == (v \div (256 ^ k)) % 256

\* stack_slice[i] = v: four bytes, little endian.
write_u32(mem, i, v) ==
    [o \in DOMAIN mem |->
        IF o \in (4 * i)..(4 * i + 3) THEN ByteOf(v, o - 4 * i) ELSE mem[o]]

read_u32(mem, i) ==
    IF \E k \in 0..3 : mem[4 * i + k] = Uninit THEN Uninit
    ELSE mem[4 * i] + 256 * mem[4 * i + 1] + 65536 * mem[4 * i + 2]
         + 16777216 * mem[4 * i + 3]

\* info_slice[info_off..info_off + len] = string, then the NUL byte.
\* info_begin is the offset of the information block in the stack memory.
copy_string(mem, info_begin, info_off, str) ==
    [o \in DOMAIN mem |->
        IF o \in (info_begin + info_off)..(info_begin + info_off + Len(str) - 1)
        THEN str[o - info_begin - info_off + 1]
        ELSE IF o = info_begin + info_off + Len(str) THEN 0
        ELSE mem[o]]

\* The state of init_stack: memory, the two offsets, and the address and
\* offset of the information block.
StackFill(mem, info_off, stack_off, info_addr, info_begin) ==
    [mem |-> mem, info_off |-> info_off, stack_off |-> stack_off,
     info_addr |-> info_addr, info_begin |-> info_begin]

\* One turn of the loops over argv and over envp: pointer, string, next.
push_string(st, str) ==
    [st EXCEPT
       !.mem = copy_string(write_u32(st.mem, st.stack_off, st.info_addr + st.info_off),
                           st.info_begin, st.info_off, str),
       !.info_off = @ + Len(str) + 1,
       !.stack_off = @ + 1]

\* One turn of the loop over the auxiliary vector.
push_aux(st, a) ==
    LET val == IF a.string THEN st.info_addr + st.info_off ELSE a.number
        copied == IF a.string
                  THEN copy_string(st.mem, st.info_begin, st.info_off, a.bytes)
                  ELSE st.mem
    IN  [st EXCEPT
           !.mem = write_u32(write_u32(copied, st.stack_off, a.a_type),
                             st.stack_off + 1, val),
           !.info_off = IF a.string THEN @ + Len(a.bytes) + 1 ELSE @,
           !.stack_off = @ + 2]

\* A NULL word at stack_off.
push_null(st) ==
    [st EXCEPT !.mem = write_u32(st.mem, st.stack_off, 0), !.stack_off = @ + 1]

\* The start of init_stack: the memory from user_stack - total_size up to
\* user_stack, with argc written.
init_stack(user_stack, argv, envp, aux) ==
    LET size == get_init_stack_size(argv, envp, aux)
        mem0 == [o \in 0..(size.total - 1) |-> Uninit]
    IN  StackFill(write_u32(mem0, 0, Len(argv)), 0, 1,
                  user_stack - size.info, size.total - size.info)

NoStackFill == StackFill(<<>>, 0, 0, 0, 0)

InitStackIdle ==
    stk = [phase |-> "idle", argv |-> <<>>, envp |-> <<>>, aux |-> <<>>,
           todo |-> <<>>, fill |-> NoStackFill, user_stack |-> 0]

\* build_image, from the mapping of the user stack up to the call of
\* init_stack.
build_image(argv, envp, aux) ==
    /\ stk.phase = "idle"
    /\ LET user_stack == USER_STACK_TOP
           init_stack_size == get_init_stack_size(argv, envp, aux).total
           pages_count == div_ceil(init_stack_size, PAGE_SIZE)
       IN  stk' = IF pages_count >= USER_STACK_SIZE
                  THEN [phase |-> "ENOMEM", argv |-> argv, envp |-> envp, aux |-> aux,
                        todo |-> <<>>, fill |-> NoStackFill, user_stack |-> 0]
                  ELSE [phase |-> "argv", argv |-> argv, envp |-> envp, aux |-> aux,
                        todo |-> argv,
                        fill |-> init_stack(user_stack, argv, envp, aux),
                        user_stack |-> user_stack]
    /\ StackFrame

\* init_stack, the loop over argv.
init_stack_argv ==
    /\ stk.phase = "argv"
    /\ stk' = IF stk.todo # <<>>
              THEN [stk EXCEPT !.fill = push_string(@, Head(stk.todo)),
                               !.todo = Tail(@)]
              ELSE [stk EXCEPT !.fill = push_null(@), !.phase = "envp",
                               !.todo = stk.envp]
    /\ StackFrame

\* init_stack, the loop over envp.
init_stack_envp ==
    /\ stk.phase = "envp"
    /\ stk' = IF stk.todo # <<>>
              THEN [stk EXCEPT !.fill = push_string(@, Head(stk.todo)),
                               !.todo = Tail(@)]
              ELSE [stk EXCEPT !.fill = push_null(@), !.phase = "aux",
                               !.todo = stk.aux]
    /\ StackFrame

\* init_stack, the loop over the auxiliary vector; after it build_image
\* returns the image, whose stack pointer is below the data.
init_stack_aux ==
    /\ stk.phase = "aux"
    /\ stk' = IF stk.todo # <<>>
              THEN [stk EXCEPT !.fill = push_aux(@, Head(stk.todo)),
                               !.todo = Tail(@)]
              ELSE [stk EXCEPT !.phase = "done",
                               !.user_stack =
                                   @ - get_init_stack_size(stk.argv, stk.envp, stk.aux).total]
    /\ StackFrame

NextStack ==
    \/ \E argv \in ArgVectors(MaxArgs), envp \in ArgVectors(MaxEnvs), aux \in AuxVectors :
          build_image(argv, envp, aux)
    \/ init_stack_argv
    \/ init_stack_envp
    \/ init_stack_aux

\* The word at address addr, and the string at address addr (up to its NUL;
\* <<Uninit>> when it runs out of the stack).
StackWord(addr) == read_u32(stk.fill.mem, (addr - stk.user_stack) \div 4)
RECURSIVE StackString(_)
StackString(addr) ==
    LET o == addr - stk.user_stack IN
    IF o \notin DOMAIN stk.fill.mem THEN <<Uninit>>
    ELSE IF stk.fill.mem[o] = 0 THEN <<>>
    ELSE <<stk.fill.mem[o]>> \o StackString(addr + 1)

\* The address of the k-th word of the frame.
WordAddr(k) == stk.user_stack + 4 * k
\* The first address above the vectors.
VectorsEnd == WordAddr(1 + Len(stk.argv) + 1 + Len(stk.envp) + 1 + 2 * Len(stk.aux))

\* C24: at program entry the stack pointer is 4-byte aligned and points to
\* argc, followed by argc argv pointers and a null, the envp pointers and a
\* null, and the auxv pairs ending with AT_NULL; every pointer refers to its
\* own NUL-terminated string above the vectors, and the frame lies in the
\* user stack.
C24_InitStackLayout ==
    stk.phase = "done" =>
        LET argc == Len(stk.argv)
            envc == Len(stk.envp)
            auxc == Len(stk.aux)
            ArgPtr(k) == StackWord(WordAddr(k))
            EnvPtr(k) == StackWord(WordAddr(argc + 1 + k))
            AuxType(k) == StackWord(WordAddr(argc + envc + 3 + 2 * (k - 1)))
            Ptrs == {ArgPtr(k) : k \in 1..argc} \cup {EnvPtr(k) : k \in 1..envc}
        IN  /\ stk.user_stack % 4 = 0
            /\ StackWord(WordAddr(0)) = argc
            /\ \A k \in 1..argc : StackString(ArgPtr(k)) = stk.argv[k]
            /\ StackWord(WordAddr(argc + 1)) = 0
            /\ \A k \in 1..envc : StackString(EnvPtr(k)) = stk.envp[k]
            /\ StackWord(WordAddr(argc + envc + 2)) = 0
            /\ \A k \in 1..auxc : AuxType(k) = stk.aux[k].a_type
            /\ AuxType(auxc) = AT_NULL
            /\ \A k \in 1..(auxc - 1) : AuxType(k) # AT_NULL
            /\ \A q \in Ptrs : q >= VectorsEnd /\ q < USER_STACK_TOP
            /\ Cardinality(Ptrs) = argc + envc
            /\ stk.user_stack + Cardinality(DOMAIN stk.fill.mem) = USER_STACK_TOP
            /\ stk.user_stack >= USER_STACK_TOP - USER_STACK_SIZE * PAGE_SIZE

\* An image with two arguments and an environment variable was built.
C24_Witness ==
    /\ stk.phase = "done"
    /\ Len(stk.argv) = 2
    /\ Len(stk.envp) = 1
    /\ stk.argv[1] # <<>>

----------------------------------------------------------------------------
\* File creation mask: umask and create_file_at (syscall/umask.rs, syscall/util.rs)

UmaskNames == {"a", "b"}

\* Modes a caller asks for, and masks a caller hands to umask (some beyond 0o777).
RequestedModes == {0, 420, 511, 1023, 2541}
RequestedMasks == {0, 18, 63, 530, 4095}

\* Mode is u32; every value here fits in 16 bits, and the upper bits of a
\* complement only ever meet zero bits.
MODE_ALL == 2^16 - 1

PERM_MASK == 511

AbsentMode == -1

RECURSIVE bit_and(_, _)
bit_and(a, b) ==
    IF a = 0 \/ b = 0 THEN 0
    ELSE 2 * bit_and(a \div 2, b \div 2) + (IF a % 2 = 1 /\ b % 2 = 1 THEN 1 ELSE 0)

bit_not(a) == MODE_ALL - a

\* The variant of apply_umask that forgets the mask.
apply_umask_ignored(mode, mask) == mode

\* create_file_at: let mode = mode & !process.umask
apply_umask(mode, mask) == bit_and(mode, bit_not(mask))

\* umask: proc.set_umask(mask & 0o777)
set_umask(mask) == bit_and(mask, PERM_MASK)

\* vfs::create_file as far as the mode goes: the file is added with the mode handed in.
vfs_create_file_mode(files, name, mode, parent_writable) ==
    IF files[name] # AbsentMode THEN [result |-> "EEXIST", files |-> files]
    ELSE IF ~parent_writable THEN [result |-> "EACCES", files |-> files]
    ELSE [result |-> "Ok", files |-> [files EXCEPT ![name] = mode]]

NoUmaskOp == [op |-> "none", name |-> "", mode |-> 0, result |-> "", prev |-> 0]

InitUmaskIdle ==
    /\ um_umask = 0
    /\ um_stored = 0
    /\ um_files = [n \in UmaskNames |-> AbsentMode]
    /\ um_last = NoUmaskOp

\* A process inherits its umask from its parent.
InitUmaskVars ==
    /\ um_umask \in {set_umask(k) : k \in RequestedMasks}
    /\ um_stored = um_umask
    /\ um_files = [n \in UmaskNames |-> AbsentMode]
    /\ um_last = NoUmaskOp

umask(mask) ==
    /\ um_umask' = set_umask(mask)
    /\ um_stored' = mask % (PERM_MASK + 1)
    /\ um_last' = [op |-> "umask", name |-> "", mode |-> mask, result |-> "Ok", prev |-> um_umask]
    /\ UNCHANGED um_files
    /\ UmaskFrame

create_file_at(name, mode, parent_writable) ==
    /\ LET r == vfs_create_file_mode(um_files, name, apply_umask(mode, um_umask), parent_writable) IN
       /\ um_files' = r.files
       /\ um_last' = [op |-> "create_file_at", name |-> name, mode |-> mode,
                      result |-> r.result, prev |-> 0]
    /\ UNCHANGED <<um_umask, um_stored>>
    /\ UmaskFrame

\* The file is removed again (keeps the directory small).
um_unlink(name) ==
    /\ um_files[name] # AbsentMode
    /\ um_files' = [um_files EXCEPT ![name] = AbsentMode]
    /\ um_last' = [op |-> "unlink", name |-> name, mode |-> 0, result |-> "Ok", prev |-> 0]
    /\ UNCHANGED <<um_umask, um_stored>>
    /\ UmaskFrame

NextUmask ==
    \/ \E mask \in RequestedMasks : umask(mask)
    \/ \E name \in UmaskNames, mode \in RequestedModes, w \in BOOLEAN : create_file_at(name, mode, w)
    \/ \E name \in UmaskNames : um_unlink(name)

ModeBit(v, i) == (v \div (2^i)) % 2 = 1

\* C25: a file created through create_file_at has, bit for bit, the requested
\* mode without the bits of the value last stored by umask.
C25_CreatedModeIsModeAndNotUmask ==
    (um_last.op = "create_file_at" /\ um_last.result = "Ok") =>
        \A i \in 0..15 :
            ModeBit(um_files[um_last.name], i) =
                (ModeBit(um_last.mode, i) /\ ~ModeBit(um_stored, i))

\* A file was created with a mode that the mask cuts, after umask stored a
\* mask that had bits beyond 0o777.
C25_Witness ==
    /\ um_last.op = "create_file_at" /\ um_last.result = "Ok"
    /\ um_last.mode = 1023
    /\ um_stored = 18
    /\ um_files[um_last.name] = 1005

----------------------------------------------------------------------------
\* Interrupt callbacks (event.rs)

MaxCallbacks == 3

CallbackPriorities == {1, 2}

\* A CallbackWrapper: its priority, the address of its boxed closure, and
\* what the closure answers (skip_next).
CallbackWrapper(priority, ptr, skip_next) ==
    [priority |-> priority, ptr |-> ptr, skip_next |-> skip_next]

\* A CallbackHook: the priority and the address it will hand to remove_callback.
CallbackHook(priority, ptr) == [priority |-> priority, ptr |-> ptr]

Found(i) == [ok |-> TRUE, index |-> i]
NotFound(i) == [ok |-> FALSE, index |-> i]

\* core::slice::binary_search_by with x.priority.cmp(&priority):
\* halves [left, right) and returns the first probe that compares Equal.
RECURSIVE binary_search_loop(_, _, _, _)
binary_search_loop(vec, priority, left, right) ==
    IF left >= right THEN NotFound(left)
    ELSE LET mid == left + ((right - left) \div 2) IN
         IF vec[mid + 1].priority < priority
         THEN binary_search_loop(vec, priority, mid + 1, right)
         ELSE IF vec[mid + 1].priority > priority
         THEN binary_search_loop(vec, priority, left, mid)
         ELSE Found(mid)

binary_search_by(vec, priority) == binary_search_loop(vec, priority, 0, Len(vec))

\* Vec::insert(index, value), Vec::remove(index): indexes count from 0.
vec_insert(vec, index, value) ==
    SubSeq(vec, 1, index) \o <<value>> \o SubSeq(vec, index + 1, Len(vec))

vec_remove(vec, index) ==
    SubSeq(vec, 1, index) \o SubSeq(vec, index + 2, Len(vec))

\* register_callback: the vector afterwards.
register_insert(vec, w) ==
    vec_insert(vec, binary_search_by(vec, w.priority).index, w)

\* remove_callback, the while loop from index i.
RECURSIVE remove_scan(_, _, _, _)
remove_scan(vec, priority, ptr, i) ==
    IF i < Len(vec) /\ vec[i + 1].priority = priority
    THEN IF vec[i + 1].ptr = ptr THEN vec_remove(vec, i)
         ELSE remove_scan(vec, priority, ptr, i + 1)
    ELSE vec

\* The variant of remove_callback that scans the whole vector.
remove_callback_everywhere(vec, priority, ptr) ==
    SelectSeq(vec, LAMBDA w : w.ptr # ptr)

\* remove_callback: the vector afterwards.
remove_callback(vec, priority, ptr) ==
    LET res == binary_search_by(vec, priority) IN
    IF res.ok THEN remove_scan(vec, priority, ptr, res.index) ELSE vec

\* event_handler, the for loop from index i: the callbacks it calls, in order.
RECURSIVE handler_calls(_, _)
handler_calls(vec, i) ==
    IF i >= Len(vec) THEN <<>>
    ELSE IF vec[i + 1].skip_next THEN <<vec[i + 1]>>
    ELSE <<vec[i + 1]>> \o handler_calls(vec, i + 1)

NoEventOp == [op |-> "none", ptr |-> 0, before |-> <<>>, calls |-> <<>>]

InitEventIdle ==
    /\ ev_callbacks = <<>>
    /\ ev_hooks = {}
    /\ ev_next = 1
    /\ ev_dropped = {}
    /\ ev_last = NoEventOp

register_callback(priority, skip_next, alloc_ok) ==
    /\ ev_next <= MaxCallbacks
    /\ IF alloc_ok
       THEN /\ ev_callbacks' = register_insert(ev_callbacks, CallbackWrapper(priority, ev_next, skip_next))
            /\ ev_hooks' = ev_hooks \cup {CallbackHook(priority, ev_next)}
            /\ ev_next' = ev_next + 1
       ELSE UNCHANGED <<ev_callbacks, ev_hooks, ev_next>>
    /\ ev_last' = [op |-> "register_callback", ptr |-> IF alloc_ok THEN ev_next ELSE 0,
                   before |-> ev_callbacks, calls |-> <<>>]
    /\ UNCHANGED ev_dropped
    /\ EventFrame

\* Drop for CallbackHook
drop_hook(hook) ==
    /\ ev_callbacks' = remove_callback(ev_callbacks, hook.priority, hook.ptr)
    /\ ev_hooks' = ev_hooks \ {hook}
    /\ ev_dropped' = ev_dropped \cup {hook.ptr}
    /\ ev_last' = [op |-> "drop", ptr |-> hook.ptr, before |-> ev_callbacks, calls |-> <<>>]
    /\ UNCHANGED ev_next
    /\ EventFrame

event_handler ==
    /\ ev_last' = [op |-> "event_handler", ptr |-> 0, before |-> ev_callbacks,
                   calls |-> handler_calls(ev_callbacks, 0)]
    /\ UNCHANGED <<ev_callbacks, ev_hooks, ev_next, ev_dropped>>
    /\ EventFrame

NextEvent ==
    \/ \E priority \in CallbackPriorities, skip_next \in BOOLEAN, alloc_ok \in BOOLEAN :
           register_callback(priority, skip_next, alloc_ok)
    \/ \E hook \in ev_hooks : drop_hook(hook)
    \/ event_handler

Registered == {ev_callbacks[i] : i \in 1..Len(ev_callbacks)}
Called == {ev_last.calls[i] : i \in 1..Len(ev_last.calls)}

\* C26: when an interrupt fires the registered callbacks are called in
\* decreasing order of priority, and the only callbacks left out are those of
\* lower priority than a callback that returned with skip_next set.
C26_CalledInDecreasingPriority ==
    ev_last.op = "event_handler" =>
        /\ \A i, j \in 1..Len(ev_last.calls) :
               i < j => ev_last.calls[i].priority >= ev_last.calls[j].priority
        /\ \A i, j \in 1..Len(ev_last.calls) :
               (i < j /\ ev_last.calls[i].skip_next) =>
                   ev_last.calls[j].priority >= ev_last.calls[i].priority
        /\ \A w \in Registered \ Called :
               \E c \in Called : c.skip_next /\ c.priority >= w.priority

\* C27: after a CallbackHook is dropped its callback is no longer registered
\* and every other callback is still registered, in the same order; an
\* interrupt never calls a callback whose hook was dropped.
C27_DroppedHookUnregisters ==
    /\ ev_last.op = "drop" =>
           /\ \A i \in 1..Len(ev_callbacks) : ev_callbacks[i].ptr # ev_last.ptr
           /\ ev_callbacks = SelectSeq(ev_last.before, LAMBDA w : w.ptr # ev_last.ptr)
    /\ ev_last.op = "event_handler" =>
           \A i \in 1..Len(ev_last.calls) : ev_last.calls[i].ptr \notin ev_dropped

----------------------------------------------------------------------------
\* Thread-local storage entries (syscall/set_thread_area.rs)

TLS_ENTRIES_COUNT == 3

TlsIndexes == 0..(TLS_ENTRIES_COUNT - 1)

\* The entry numbers a caller hands in.
EntryNumbers == (-2)..(TLS_ENTRIES_COUNT + 1)

TlsOk(id) == [result |-> "Ok", id |-> id]
TlsErr(e) == [result |-> e, id |-> -1]

\* get_free_entry: the first entry that is not present.
get_free_entry(tls) ==
    IF \E i \in TlsIndexes : ~tls[i]
    THEN TlsOk(CHOOSE i \in TlsIndexes : ~tls[i] /\ \A j \in TlsIndexes : j < i => tls[j])
    ELSE TlsErr("ESRCH")

\* get_entry: the index used; indexing the entries beyond their end panics.
get_entry(tls, entry_number) ==
    IF entry_number < 0 \/ entry_number > TLS_ENTRIES_COUNT THEN TlsErr("EINVAL")
    ELSE LET r == IF entry_number = -1 THEN get_free_entry(tls) ELSE TlsOk(entry_number)
         IN  IF r.result # "Ok" THEN r
             ELSE IF r.id \notin TlsIndexes THEN TlsErr("panic")
             ELSE r

\* The entry number the user_desc holds after the call.
reported_entry_number(entry_number) ==
    LET tls_offset == 48        \* gdt::TLS_OFFSET
        size_of_entry == 8      \* size_of::<gdt::Entry>()
    IN  IF entry_number = -1
        THEN tls_offset - size_of_entry     \* (-1 as usize) * 8 wraps around
        ELSE entry_number

NoTlsOp == [op |-> "none", entry_number |-> 0, before |-> [i \in TlsIndexes |-> FALSE],
            result |-> "", id |-> -1, reported |-> 0]

InitTlsIdle ==
    /\ tls_entries = [i \in TlsIndexes |-> FALSE]
    /\ tls_last = NoTlsOp

set_thread_area(entry_number, present, access_ok) ==
    /\ tls_last.result # "panic"
    /\ LET r == IF ~access_ok THEN TlsErr("EFAULT") ELSE get_entry(tls_entries, entry_number) IN
       /\ tls_entries' = IF r.result = "Ok" THEN [tls_entries EXCEPT ![r.id] = present]
                         ELSE tls_entries
       /\ tls_last' = [op |-> "set_thread_area", entry_number |-> entry_number,
                       before |-> tls_entries, result |-> r.result, id |-> r.id,
                       reported |-> IF r.result = "Ok" THEN reported_entry_number(entry_number)
                                    ELSE entry_number]
    /\ TlsFrame

NextTls ==
    \E entry_number \in EntryNumbers, present \in BOOLEAN, access_ok \in BOOLEAN :
        set_thread_area(entry_number, present, access_ok)

\* C29: with entry number -1 the call uses an entry that was free, or fails
\* when none was free; with any other number it uses that entry when the
\* number is a valid index and fails with EINVAL otherwise; the number the
\* user reads back is the index used.
C29_GetEntryChoosesFreeOrChecksIndex ==
    (tls_last.op = "set_thread_area" /\ tls_last.result # "EFAULT") =>
        /\ tls_last.entry_number = -1 =>
              IF \E i \in TlsIndexes : ~tls_last.before[i]
              THEN /\ tls_last.result = "Ok"
                   /\ tls_last.id \in TlsIndexes
                   /\ ~tls_last.before[tls_last.id]
              ELSE tls_last.result \notin {"Ok", "panic"}
        /\ tls_last.entry_number # -1 =>
              IF tls_last.entry_number \in TlsIndexes
              THEN tls_last.result = "Ok" /\ tls_last.id = tls_last.entry_number
              ELSE tls_last.result = "EINVAL"
        /\ tls_last.result = "Ok" => tls_last.reported = tls_last.id

----------------------------------------------------------------------------
\* Paths (filesystem/path.rs)

MaxParts == 4

\* The components the runs push: the two special names and two normal ones.
PathNames == {".", "..", "a", "b"}

MkPath(is_abs, path_parts) == [absolute |-> is_abs, parts |-> path_parts]

\* Path::root
path_root == MkPath(TRUE, <<>>)

\* Path::from_string of a single component without separator.
path_from_string(name) == MkPath(FALSE, <<name>>)

\* Path::push, Path::pop
path_push(p, filename) == [p EXCEPT !.parts = Append(@, filename)]
path_pop(p) ==
    IF p.parts = <<>> THEN p ELSE [p EXCEPT !.parts = SubSeq(@, 1, Len(@) - 1)]

\* Path::reduce, the while loop from index i.
RECURSIVE reduce_loop(_, _, _)
reduce_loop(is_abs, path_parts, i) ==
    IF i >= Len(path_parts) THEN path_parts
    ELSE LET part == path_parts[i + 1] IN
         IF part = "."
         THEN reduce_loop(is_abs, vec_remove(path_parts, i), i)
         ELSE IF part = ".." /\ is_abs /\ i = 0
         THEN reduce_loop(is_abs, vec_remove(path_parts, i), i)
         ELSE IF part = ".." /\ i > 0 /\ path_parts[i] # ".."
         THEN reduce_loop(is_abs, vec_remove(vec_remove(path_parts, i), i - 1), i - 1)
         ELSE reduce_loop(is_abs, path_parts, i + 1)

\* The variant of reduce that leaves the parts alone.
path_reduce_nothing(p) == p

\* Path::reduce
path_reduce(p) ==
    LET reduced == reduce_loop(p.absolute, p.parts, 0) IN
    IF ~p.absolute /\ reduced = <<>> THEN MkPath(p.absolute, <<".">>)
    ELSE MkPath(p.absolute, reduced)

NoPathOp == [op |-> "none", before |-> path_root]

InitPathIdle ==
    /\ path_cur = path_root
    /\ path_last = NoPathOp

PathLog(op) == [op |-> op, before |-> path_cur]

root ==
    /\ path_cur' = path_root
    /\ path_last' = PathLog("root")
    /\ PathFrame

from_string(name) ==
    /\ path_cur' = path_from_string(name)
    /\ path_last' = PathLog("from_string")
    /\ PathFrame

push(filename) ==
    /\ Len(path_cur.parts) < MaxParts
    /\ path_cur' = path_push(path_cur, filename)
    /\ path_last' = PathLog("push")
    /\ PathFrame

pop ==
    /\ path_cur' = path_pop(path_cur)
    /\ path_last' = PathLog("pop")
    /\ PathFrame

reduce ==
    /\ path_cur' = path_reduce(path_cur)
    /\ path_last' = PathLog("reduce")
    /\ PathFrame

NextPath ==
    \/ root
    \/ \E name \in PathNames : from_string(name)
    \/ \E filename \in PathNames : push(filename)
    \/ pop
    \/ reduce

\* Where a path leads from the directory cwd (a sequence of names below the
\* root): "." stays, ".." goes to the parent and stays at the root.
RECURSIVE walk(_, _)
walk(dir, path_parts) ==
    IF path_parts = <<>> THEN dir
    ELSE LET part == Head(path_parts) IN
         walk(CASE part = "." -> dir
                [] part = ".." -> IF dir = <<>> THEN dir ELSE SubSeq(dir, 1, Len(dir) - 1)
                [] OTHER -> Append(dir, part),
              Tail(path_parts))

Leads(p, cwd) == walk(IF p.absolute THEN <<>> ELSE cwd, p.parts)

WorkingDirs == {<<>>, <<"c">>, <<"c", "d">>, <<"c", "d", "e">>}

\* C30: the reduced path leads where the path led, from every working
\* directory; it has no "." component (but is "." when a relative path
\* reduces to nothing) and no ".." after a normal component, so an absolute
\* path has no ".." left and a relative one only leading ones; reducing it
\* again changes nothing.
C30_ReduceNormalises ==
    path_last.op = "reduce" =>
        /\ path_cur.absolute = path_last.before.absolute
        /\ \A cwd \in WorkingDirs : Leads(path_cur, cwd) = Leads(path_last.before, cwd)
        /\ (\E i \in 1..Len(path_cur.parts) : path_cur.parts[i] = ".")
              => (~path_cur.absolute /\ path_cur.parts = <<".">>)
        /\ \A i \in 2..Len(path_cur.parts) :
              path_cur.parts[i] = ".." => path_cur.parts[i - 1] = ".."
        /\ path_cur.absolute => \A i \in 1..Len(path_cur.parts) : path_cur.parts[i] # ".."
        /\ ~path_cur.absolute => path_cur.parts # <<>>
        /\ path_reduce(path_cur) = path_cur

\* A relative path with "." and with ".." after a normal component was
\* reduced to a single "..".
C30_Witness ==
    /\ path_last.op = "reduce"
    /\ path_last.before = MkPath(FALSE, <<"a", ".", "..", "..">>)
    /\ path_cur = MkPath(FALSE, <<"..">>)

----------------------------------------------------------------------------
\* Intrusive doubly-linked list (utils/collections/list.rs)

MaxListElems == 4

\* The list's own node, and the nodes of the elements.
LIST_BASE == 0
ListElems == 1..MaxListElems
ListNodes == {LIST_BASE} \cup ListElems

Links(p, n) == [prev |-> p, next |-> n]

\* ListNode::insert_after: self is linked in after node.
ListNode_insert_after(l, self, node) ==
    LET p1 == [l.prev EXCEPT ![self] = {node}]
        n1 == [l.next EXCEPT ![self] = l.next[node]]
        n2 == [n1 EXCEPT ![node] = {self}]
    IN  IF n2[self] = {} THEN Links(p1, n2)
        ELSE Links([p1 EXCEPT ![CHOOSE x \in n2[self] : TRUE] = {self}], n2)

\* The variant of unlink that leaves the next node's prev as it was.
ListNode_unlink_forward_only(l, self) ==
    LET p1 == [l.prev EXCEPT ![self] = {}]
        n1 == [l.next EXCEPT ![self] = {}]
    IN  IF l.prev[self] = {} THEN Links(p1, n1)
        ELSE Links(p1, [n1 EXCEPT ![CHOOSE x \in l.prev[self] : TRUE] = l.next[self]])

\* ListNode::unlink: both links are taken, then the neighbours are joined.
ListNode_unlink(l, self) ==
    LET prev == l.prev[self]
        next == l.next[self]
        p1 == [l.prev EXCEPT ![self] = {}]
        n1 == [l.next EXCEPT ![self] = {}]
        n2 == IF prev = {} THEN n1
              ELSE [n1 EXCEPT ![CHOOSE x \in prev : TRUE] = next]
        p2 == IF next = {} THEN p1
              ELSE [p1 EXCEPT ![CHOOSE x \in next : TRUE] = prev]
    IN  Links(p2, n2)

\* List::insert_front_impl
insert_front_impl(l, node) ==
    IF l.next[LIST_BASE] # {}
    THEN ListNode_insert_after(l, node, LIST_BASE)
    ELSE Links([l.prev EXCEPT ![node] = {LIST_BASE}, ![LIST_BASE] = {node}],
               [l.next EXCEPT ![node] = {LIST_BASE}, ![LIST_BASE] = {node}])

\* Iterator::next until it returns None: the nodes of the cursors, in order.
RECURSIVE iter_forward(_, _, _, _)
iter_forward(l, start, end, fuel) ==
    IF start = end \/ fuel = 0 \/ l.next[start] = {} THEN <<>>
    ELSE <<start>> \o iter_forward(l, CHOOSE x \in l.next[start] : TRUE, end, fuel - 1)

\* DoubleEndedIterator::next_back until it returns None.
RECURSIVE iter_backward(_, _, _, _)
iter_backward(l, start, end, fuel) ==
    IF start = end \/ fuel = 0 \/ l.prev[end] = {} THEN <<>>
    ELSE LET node == CHOOSE x \in l.prev[end] : TRUE
         IN  <<node>> \o iter_backward(l, start, node, fuel - 1)

\* List::iter: where the iterator starts.
iter_start(l) ==
    IF l.next[LIST_BASE] = {} THEN LIST_BASE ELSE CHOOSE x \in l.next[LIST_BASE] : TRUE

CurrentList == Links(il_prev, il_next)
Forward(l) == iter_forward(l, iter_start(l), LIST_BASE, MaxListElems + 2)
Backward(l) == iter_backward(l, iter_start(l), LIST_BASE, MaxListElems + 2)

\* List::remove_front: the node whose container is returned ({} for None),
\* and the links afterwards.
list_remove_front(l) ==
    IF l.next[LIST_BASE] = {} THEN [ret |-> {}, links |-> l]
    ELSE LET head == CHOOSE x \in l.next[LIST_BASE] : TRUE
         IN  [ret |-> {head}, links |-> ListNode_unlink(l, head)]

NoListOp == [op |-> "none", node |-> LIST_BASE, before |-> <<>>, ret |-> {}]

InitIlistIdle ==
    /\ il_prev = [n \in ListNodes |-> {}]
    /\ il_next = [n \in ListNodes |-> {}]
    /\ il_order = <<>>
    /\ il_last = NoListOp

SetLinks(l) ==
    /\ il_prev' = l.prev
    /\ il_next' = l.next

WithoutNode(order, node) == SelectSeq(order, LAMBDA e : e # node)

\* Once remove_front has handed out the base node as an element nothing is
\* defined any more.
ListDefined == LIST_BASE \notin il_last.ret

\* insert_front of an element that is in no list.
insert_front(node) ==
    /\ ListDefined
    /\ il_prev[node] = {} /\ il_next[node] = {}
    /\ SetLinks(insert_front_impl(CurrentList, node))
    /\ il_order' = <<node>> \o il_order
    /\ il_last' = [op |-> "insert_front", node |-> node, before |-> il_order, ret |-> {}]
    /\ IlistFrame

\* Cursor::remove on a cursor the iterator gave.
cursor_remove(node) ==
    /\ ListDefined
    /\ SetLinks(ListNode_unlink(CurrentList, node))
    /\ il_order' = WithoutNode(il_order, node)
    /\ il_last' = [op |-> "remove", node |-> node, before |-> il_order, ret |-> {node}]
    /\ IlistFrame

\* Cursor::lru_promote on a cursor the iterator gave.
lru_promote(node) ==
    /\ ListDefined
    /\ SetLinks(insert_front_impl(ListNode_unlink(CurrentList, node), node))
    /\ il_order' = <<node>> \o WithoutNode(il_order, node)
    /\ il_last' = [op |-> "lru_promote", node |-> node, before |-> il_order, ret |-> {}]
    /\ IlistFrame

remove_front ==
    /\ ListDefined
    /\ LET r == list_remove_front(CurrentList) IN
       /\ SetLinks(r.links)
       /\ il_order' = IF r.ret = {} THEN il_order
                      ELSE WithoutNode(il_order, CHOOSE x \in r.ret : TRUE)
       /\ il_last' = [op |-> "remove_front", node |-> LIST_BASE, before |-> il_order,
                      ret |-> r.ret]
    /\ IlistFrame

CursorNodes ==
    LET f == Forward(CurrentList) IN {f[i] : i \in 1..Len(f)}

NextIlist ==
    \/ \E node \in ListElems : insert_front(node)
    \/ \E node \in CursorNodes : cursor_remove(node)
    \/ \E node \in CursorNodes : lru_promote(node)
    \/ remove_front

ReverseSeq(s) == [i \in 1..Len(s) |-> s[Len(s) + 1 - i]]

\* C31: forward iteration yields the elements in the list, each once, the
\* latest inserted or promoted first; backward iteration yields them in the
\* reverse order.
C31_IterationMatchesContents ==
    ListDefined =>
        /\ Forward(CurrentList) = il_order
        /\ Backward(CurrentList) = ReverseSeq(il_order)
        /\ Cardinality(CursorNodes) = Len(il_order)
        /\ LIST_BASE \notin CursorNodes

\* Three elements are in the list after one was removed through a cursor,
\* put back, and another was promoted.
C31_Witness ==
    /\ il_last.op = "lru_promote"
    /\ Len(il_last.before) = MaxListElems
    /\ il_last.node = il_last.before[MaxListElems]
    /\ Forward(CurrentList) = il_order
    /\ il_order[1] = il_last.node

\* C32: remove_front returns None exactly when no element is in the list;
\* otherwise it returns the first element, which is then out of the list;
\* it never returns the base node.
C32_RemoveFrontNoneIffEmpty ==
    il_last.op = "remove_front" =>
        /\ (il_last.ret = {}) = (il_last.before = <<>>)
        /\ il_last.before # <<>> =>
              /\ il_last.ret = {il_last.before[1]}
              /\ il_order = Tail(il_last.before)
        /\ LIST_BASE \notin il_last.ret

----------------------------------------------------------------------------
\* kill with pid -1 (kernel syscall/kill.rs)

MaxKillPid == 4

KillPids == 1..MaxKillPid

\* The calling process.
KillCaller == INIT_PID + 1

KillOk(T) == [result |-> "Ok", procs |-> T]
KillErr(e, T) == [result |-> e, procs |-> T]

\* try_kill on an existing process: the closure f.
try_kill_closure(T, target, send) ==
    IF T[target].state = "Zombie" THEN KillOk(T)
    ELSE IF ~T[target].can_kill THEN KillErr("EPERM", T)
    ELSE IF send THEN KillOk([T EXCEPT ![target].pending = TRUE])
    ELSE KillOk(T)

\* send_signal, the arm for -1: the loop over the scheduler's processes from
\* pid upwards; the first error ends it.
RECURSIVE send_signal_all(_, _, _)
send_signal_all(T, pid, send) ==
    IF pid > MaxKillPid THEN KillOk(T)
    ELSE IF pid = INIT_PID THEN send_signal_all(T, pid + 1, send)
    ELSE LET r == try_kill_closure(T, pid, send) IN
         IF r.result # "Ok" THEN r
         ELSE send_signal_all(r.procs, pid + 1, send)

NoKillOp == [op |-> "none", pid |-> 0, send |-> FALSE, result |-> "",
             before |-> [p \in KillPids |-> [state |-> "Running", can_kill |-> TRUE, pending |-> FALSE]]]

InitKillallIdle ==
    /\ ka_procs = [p \in KillPids |-> [state |-> "Running", can_kill |-> TRUE, pending |-> FALSE]]
    /\ ka_last = NoKillOp

\* Processes of several users; the caller may always signal itself.
InitKillallVars ==
    /\ ka_procs \in [KillPids -> [state : {"Running", "Zombie"}, can_kill : BOOLEAN, pending : {FALSE}]]
    /\ ka_procs[KillCaller].can_kill
    /\ ka_procs[KillCaller].state = "Running"
    /\ ka_procs[INIT_PID].state = "Running"
    /\ ka_last = NoKillOp

\* kill(-1, sig); sig 0 sends nothing.
kill_all(send) ==
    /\ LET r == send_signal_all(ka_procs, 1, send) IN
       /\ ka_procs' = r.procs
       /\ ka_last' = [op |-> "kill_all", pid |-> -1, send |-> send, result |-> r.result,
                      before |-> ka_procs]
    /\ KillallFrame

\* kill(pid, sig) with a positive pid.
kill_one(pid, send) ==
    /\ LET r == try_kill_closure(ka_procs, pid, send) IN
       /\ ka_procs' = r.procs
       /\ ka_last' = [op |-> "kill_one", pid |-> pid, send |-> send, result |-> r.result,
                      before |-> ka_procs]
    /\ KillallFrame

\* The target takes the pending signal.
kill_taken(pid) ==
    /\ ka_procs[pid].pending
    /\ ka_procs' = [ka_procs EXCEPT ![pid].pending = FALSE]
    /\ ka_last' = [NoKillOp EXCEPT !.op = "taken", !.pid = pid, !.before = ka_procs]
    /\ KillallFrame

NextKillall ==
    \/ \E send \in BOOLEAN : kill_all(send)
    \/ \E pid \in KillPids, send \in BOOLEAN : kill_one(pid, send)
    \/ \E pid \in KillPids : kill_taken(pid)

\* C33: kill(-1, sig) leaves the signal pending on every process other than
\* init that is alive and that the caller may signal, whatever other
\* processes exist.
C33_KillAllReachesEveryPermitted ==
    (ka_last.op = "kill_all" /\ ka_last.send) =>
        \A p \in KillPids \ {INIT_PID} :
            (ka_last.before[p].state # "Zombie" /\ ka_last.before[p].can_kill)
                => ka_procs[p].pending

----------------------------------------------------------------------------
\* Kernel log ring buffer (logger.rs)

\* buff.len(): LOGS_SIZE scaled down.
LogsSize == 4

\* Bytes: one ordinary character and the line feed.
LogChar == 97
LOG_NEWLINE == 10

BuffIdx == 0..(LogsSize - 1)

\* The strings pushed: every string of 1 to LogsSize bytes.
LogStrings == UNION {[1..n -> {LogChar, LOG_NEWLINE}] : n \in 1..LogsSize}

\* Logger::available_space
available_space(l) ==
    IF l.write_head = l.read_head THEN LogsSize
    ELSE IF l.write_head > l.read_head THEN LogsSize - (l.write_head - l.read_head)
    ELSE l.read_head - l.write_head - 1

\* Logger::get_size
logger_get_size(l) == LogsSize - available_space(l)

\* Logger::pop, the while loop: the i it stops at.
RECURSIVE pop_scan(_, _, _)
pop_scan(l, read_new, i) ==
    IF i >= LogsSize THEN i
    ELSE LET off == (read_new + i) % LogsSize IN
         IF off >= l.write_head \/ l.buff[off] = LOG_NEWLINE THEN i
         ELSE pop_scan(l, read_new, i + 1)

\* Logger::pop
logger_pop(l, n) ==
    LET read_new == (l.read_head + n) % LogsSize IN
    IF read_new >= l.write_head /\ read_new < l.read_head
    THEN [l EXCEPT !.read_head = l.write_head]
    ELSE [l EXCEPT !.read_head = (read_new + pop_scan(l, read_new, 0)) % LogsSize]

\* buff[from..to].copy_from_slice(src): panics unless the lengths are equal.
copy_from_slice(l, from, to, src) ==
    IF to - from # Len(src) THEN [l EXCEPT !.panicked = TRUE]
    ELSE [l EXCEPT !.buff = [k \in BuffIdx |->
                                IF k >= from /\ k < to THEN src[k - from + 1] ELSE l.buff[k]]]

\* Logger::push
logger_push(l0, s) ==
    LET l == IF available_space(l0) < Len(s)
             THEN logger_pop(l0, Len(s) - available_space(l0))
             ELSE l0
        len == IF available_space(l) < Len(s) THEN available_space(l) ELSE Len(s)
        end == (l.write_head + len) % LogsSize
        copied ==
            IF end < l.write_head
            THEN LET first == copy_from_slice(l, l.write_head, LogsSize, SubSeq(s, 1, len - end))
                 IN  IF first.panicked THEN first
                     ELSE copy_from_slice(first, 0, end, SubSeq(s, len - end + 1, Len(s)))
            ELSE copy_from_slice(l, l.write_head, end, SubSeq(s, 1, len))
    IN  IF copied.panicked THEN copied
        ELSE [copied EXCEPT !.write_head = end]

\* Logger::new
NewLogger == [buff |-> [k \in BuffIdx |-> 0], read_head |-> 0, write_head |-> 0,
              panicked |-> FALSE]

NoLogOp == [op |-> "none", s |-> <<>>, before |-> NewLogger]

InitLoggerIdle ==
    /\ lg = NewLogger
    /\ lg_last = NoLogOp

\* write_str: the string is pushed onto the buffer.
write_str(s) ==
    /\ ~lg.panicked
    /\ lg' = logger_push(lg, s)
    /\ lg_last' = [op |-> "push", s |-> s, before |-> lg]
    /\ LoggerFrame

NextLogger == \E s \in LogStrings : write_str(s)

\* C34: after a push of a string no longer than the buffer, push has not
\* failed, both heads are inside the buffer, the string is in the buffer
\* right before the write head and is counted in the size, and the read head
\* has moved only to the write head or to a line boundary.
C34_PushKeepsRingBuffer ==
    lg_last.op = "push" =>
        /\ ~lg.panicked
        /\ lg.read_head \in BuffIdx /\ lg.write_head \in BuffIdx
        /\ \A k \in 1..Len(lg_last.s) :
              lg.buff[(lg.write_head + LogsSize - Len(lg_last.s) + k - 1) % LogsSize]
                  = lg_last.s[k]
        /\ logger_get_size(lg) >= Len(lg_last.s)
        /\ lg.read_head # lg_last.before.read_head =>
              \/ lg.read_head = lg.write_head
              \/ lg.buff[lg.read_head] = LOG_NEWLINE
              \/ lg.buff[(lg.read_head + LogsSize - 1) % LogsSize] = LOG_NEWLINE

----------------------------------------------------------------------------
\* exec and its errors (kernel process/exec/mod.rs)

\* The program images of the runs; image 0 is the one the process started with.
MaxImages == 2
ImageIds == 1..MaxImages

\* Where exec can fail: the allocations of the four Arc::new and the
\* duplication of the file descriptor table.
ExecFailures == {"none", "argv", "envp", "mem_space", "fds_duplicate", "fds_arc"}

\* File descriptors: the number and whether it is close-on-exec.
FdTables == SUBSET {[fd |-> 0, cloexec |-> FALSE], [fd |-> 3, cloexec |-> TRUE]}

\* FileDescriptorTable::duplicate(true): the close-on-exec descriptors are left out.
fds_duplicate(fds) == {f \in fds : ~f.cloexec}

ExecDone(P) == [result |-> "Ok", proc |-> P]
ExecFailed(P) == [result |-> "ENOMEM", proc |-> P]

\* exec: every step up to the first failure has taken effect when the error
\* is returned.
exec_fallible(P, image, fail) ==
    IF fail = "argv" THEN ExecFailed(P)
    ELSE LET P1 == [P EXCEPT !.argv = image]
    IN  IF fail = "envp" THEN ExecFailed(P1)
    ELSE LET P2 == [P1 EXCEPT !.envp = image]
    IN  IF fail = "mem_space" THEN ExecFailed(P2)
    ELSE LET P3 == [P2 EXCEPT !.mem_space = image]
    IN  IF P3.file_descriptors.some /\ fail \in {"fds_duplicate", "fds_arc"}
        THEN ExecFailed(P3)
    ELSE LET P4 == IF P3.file_descriptors.some
                   THEN [P3 EXCEPT !.file_descriptors.fds = fds_duplicate(@)]
                   ELSE P3
    IN  ExecDone([P4 EXCEPT !.signal_handlers = [g \in DOMAIN @ |-> "Default"],
                            !.tls_entries = FALSE,
                            !.regs = [eip |-> image, esp |-> image]])

ExecHandlers == [{SIGUSR1} -> {"Default", "Ignore", "Handler"}]

NoExecErrOp == [op |-> "none", image |-> 0, fail |-> "none", result |-> "",
                before |-> [argv |-> 0, envp |-> 0, mem_space |-> 0,
                            file_descriptors |-> [some |-> FALSE, fds |-> {}],
                            signal_handlers |-> [g \in {SIGUSR1} |-> "Default"],
                            tls_entries |-> FALSE,
                            regs |-> [eip |-> 0, esp |-> 0]]]

InitExecerrIdle ==
    /\ xp = NoExecErrOp.before
    /\ xp_last = NoExecErrOp

\* A process that has run for a while: descriptors opened, handlers
\* installed, a TLS entry set.
InitExecerrVars ==
    /\ xp \in [argv : {0}, envp : {0}, mem_space : {0},
               file_descriptors : [some : {TRUE}, fds : FdTables] \cup {[some |-> FALSE, fds |-> {}]},
               signal_handlers : ExecHandlers,
               tls_entries : BOOLEAN,
               regs : {[eip |-> 0, esp |-> 0]}]
    /\ xp_last = NoExecErrOp

exec_call(image, fail) ==
    /\ LET r == exec_fallible(xp, image, fail) IN
       /\ xp' = r.proc
       /\ xp_last' = [op |-> "exec", image |-> image, fail |-> fail, result |-> r.result,
                      before |-> xp]
    /\ ExecerrFrame

NextExecerr == \E image \in ImageIds, fail \in ExecFailures : exec_call(image, fail)

\* C37: when exec returns an error the process is as it was before the call.
C37_FailedExecLeavesProcess ==
    (xp_last.op = "exec" /\ xp_last.result # "Ok") => xp = xp_last.before

----------------------------------------------------------------------------
Init == InitCacheVars /\ InitSchedVars /\ InitProcIdle /\ InitPtrIdle /\ InitResIdle /\ InitVfsIdle /\ InitMmapIdle /\ InitMemIdle /\ InitLockIdle /\ InitVmemIdle /\ InitStackIdle /\ InitUmaskIdle /\ InitEventIdle /\ InitTlsIdle /\ InitPathIdle /\ InitIlistIdle /\ InitKillallIdle /\ InitLoggerIdle /\ InitExecerrIdle

Next == \/ NextCache \/ NextSched \/ NextSignal \/ NextExec \/ NextWait \/ NextPtr \/ NextRes \/ NextVfs \/ NextMmap \/ NextMem \/ NextLock \/ NextVmem \/ NextStack \/ NextUmask \/ NextEvent \/ NextTls \/ NextPath \/ NextIlist \/ NextKillall \/ NextLogger \/ NextExecerr

InitUmask == InitCacheVars /\ InitSchedVars /\ InitProcIdle /\ InitPtrIdle /\ InitResIdle /\ InitVfsIdle /\ InitMmapIdle /\ InitMemIdle /\ InitLockIdle /\ InitVmemIdle /\ InitStackIdle /\ InitUmaskVars /\ InitEventIdle /\ InitTlsIdle /\ InitPathIdle /\ InitIlistIdle /\ InitKillallIdle /\ InitLoggerIdle /\ InitExecerrIdle
InitKillall == InitCacheVars /\ InitSchedVars /\ InitProcIdle /\ InitPtrIdle /\ InitResIdle /\ InitVfsIdle /\ InitMmapIdle /\ InitMemIdle /\ InitLockIdle /\ InitVmemIdle /\ InitStackIdle /\ InitUmaskIdle /\ InitEventIdle /\ InitTlsIdle /\ InitPathIdle /\ InitIlistIdle /\ InitKillallVars /\ InitLoggerIdle /\ InitExecerrIdle
InitExecerr == InitCacheVars /\ InitSchedVars /\ InitProcIdle /\ InitPtrIdle /\ InitResIdle /\ InitVfsIdle /\ InitMmapIdle /\ InitMemIdle /\ InitLockIdle /\ InitVmemIdle /\ InitStackIdle /\ InitUmaskIdle /\ InitEventIdle /\ InitTlsIdle /\ InitPathIdle /\ InitIlistIdle /\ InitKillallIdle /\ InitLoggerIdle /\ InitExecerrVars
SpecCache == Init /\ [][NextCache]_vars
SpecSched == Init /\ [][NextSched]_vars
InitSignal == InitCacheVars /\ InitSchedVars /\ InitSignalProcs /\ InitPtrIdle /\ InitResIdle /\ InitVfsIdle /\ InitMmapIdle /\ InitMemIdle /\ InitLockIdle /\ InitVmemIdle /\ InitStackIdle /\ InitUmaskIdle /\ InitEventIdle /\ InitTlsIdle /\ InitPathIdle /\ InitIlistIdle /\ InitKillallIdle /\ InitLoggerIdle /\ InitExecerrIdle
InitWait == InitCacheVars /\ InitSchedVars /\ InitWaitProcs /\ InitPtrIdle /\ InitResIdle /\ InitVfsIdle /\ InitMmapIdle /\ InitMemIdle /\ InitLockIdle /\ InitVmemIdle /\ InitStackIdle /\ InitUmaskIdle /\ InitEventIdle /\ InitTlsIdle /\ InitPathIdle /\ InitIlistIdle /\ InitKillallIdle /\ InitLoggerIdle /\ InitExecerrIdle
InitPtr == InitCacheVars /\ InitSchedVars /\ InitProcIdle /\ InitPtrVars /\ InitResIdle /\ InitVfsIdle /\ InitMmapIdle /\ InitMemIdle /\ InitLockIdle /\ InitVmemIdle /\ InitStackIdle /\ InitUmaskIdle /\ InitEventIdle /\ InitTlsIdle /\ InitPathIdle /\ InitIlistIdle /\ InitKillallIdle /\ InitLoggerIdle /\ InitExecerrIdle
InitVfs == InitCacheVars /\ InitSchedVars /\ InitProcIdle /\ InitPtrIdle /\ InitResIdle /\ InitVfsVars /\ InitMmapIdle /\ InitMemIdle /\ InitLockIdle /\ InitVmemIdle /\ InitStackIdle /\ InitUmaskIdle /\ InitEventIdle /\ InitTlsIdle /\ InitPathIdle /\ InitIlistIdle /\ InitKillallIdle /\ InitLoggerIdle /\ InitExecerrIdle
InitVmem == InitCacheVars /\ InitSchedVars /\ InitProcIdle /\ InitPtrIdle /\ InitResIdle /\ InitVfsIdle /\ InitMmapIdle /\ InitMemIdle /\ InitLockIdle /\ InitVmemVars /\ InitStackIdle /\ InitUmaskIdle /\ InitEventIdle /\ InitTlsIdle /\ InitPathIdle /\ InitIlistIdle /\ InitKillallIdle /\ InitLoggerIdle /\ InitExecerrIdle
InitRes == InitCacheVars /\ InitSchedVars /\ InitProcIdle /\ InitPtrIdle /\ InitResVars /\ InitVfsIdle /\ InitMmapIdle /\ InitMemIdle /\ InitLockIdle /\ InitVmemIdle /\ InitStackIdle /\ InitUmaskIdle /\ InitEventIdle /\ InitTlsIdle /\ InitPathIdle /\ InitIlistIdle /\ InitKillallIdle /\ InitLoggerIdle /\ InitExecerrIdle

SpecSignal == InitSignal /\ [][NextSignal]_vars
SpecExec == InitSignal /\ [][NextExec]_vars
SpecWait == InitWait /\ [][NextWait]_vars
SpecPtr == InitPtr /\ [][NextPtr]_vars
SpecRes == InitRes /\ [][NextRes]_vars
SpecVfs == InitVfs /\ [][NextVfs]_vars
SpecMmap == Init /\ [][NextMmap]_vars
SpecMem == Init /\ [][NextMem]_vars
SpecLock == Init /\ [][NextLock]_vars
SpecVmem == InitVmem /\ [][NextVmem]_vars
SpecStack == Init /\ [][NextStack]_vars
SpecUmask == InitUmask /\ [][NextUmask]_vars
SpecEvent == Init /\ [][NextEvent]_vars
SpecTls == Init /\ [][NextTls]_vars
SpecPath == Init /\ [][NextPath]_vars
SpecIlist == Init /\ [][NextIlist]_vars
SpecKillall == InitKillall /\ [][NextKillall]_vars
SpecLogger == Init /\ [][NextLogger]_vars
SpecExecerr == InitExecerr /\ [][NextExecerr]_vars
Spec == Init /\ [][Next]_vars
============================================================================
